---- MODULE Spec2Model ----
(***************************************************************************)
(* A model of the schema interpreter of packages/schema/src/Parser.ts:     *)
(* parserFor(schema, as) compiles an AST into a parser, and the public     *)
(* operations decode / is / encode run it on an input with ParseOptions.   *)
(*                                                                         *)
(* JavaScript values, AST nodes, ParseErrors and ParseResults are tagged   *)
(* records.  The operator go(ast, as, u, options) is the parser that       *)
(* parserFor's go(ast) returns, applied to (u, options); every loop body   *)
(* of the source is an operator over the loop's local variables.  Spec     *)
(* applies the operations as single steps; SpecSteps runs parserFor and    *)
(* the parser call by call, on a stack.                                    *)
(***************************************************************************)
EXTENDS Integers, Sequences, FiniteSets, TLC

VARIABLES pc, curSchema, curInput, curOptions, result, back,
          curAs, heap, root, stack, thunkCalls

vars == <<pc, curSchema, curInput, curOptions, result, back,
          curAs, heap, root, stack, thunkCalls>>

\* The variables of the step-by-step runs of a parser (below).
run == <<heap, root, stack, thunkCalls>>

-----------------------------------------------------------------------------
(* JavaScript values *)

Str(s) == [t |-> "string", s |-> s]

Num(n) == [t |-> "number", n |-> n]

Bool(b) == [t |-> "boolean", b |-> b]

Undefined == [t |-> "undefined"]

Null == [t |-> "null"]

Arr(a) == [t |-> "array", a |-> a]

Obj(o) == [t |-> "object", o |-> o]

isString(u) == u.t = "string"

isNumber(u) == u.t = "number"

isBoolean(u) == u.t = "boolean"

isUndefined(u) == u.t = "undefined"

isNotNull(u) == u.t # "null" /\ u.t # "undefined"

isArray(u) == u.t = "array"

isUnknownObject(u) == u.t = "object" \/ u.t = "array"

\* The property name of an array index (the indexes the model's arrays reach).
IdxKey(i) ==
  CASE i = 0 -> "0" [] i = 1 -> "1" [] i = 2 -> "2" [] i = 3 -> "3"
    [] i = 4 -> "4" [] i = 5 -> "5" [] OTHER -> "6"

\* The own enumerable string-keyed properties of an object, in property order.
Entries(u) ==
  IF u.t = "array" THEN [n \in 1..Len(u.a) |-> [k |-> IdxKey(n - 1), v |-> u.a[n]]]
  ELSE IF u.t = "object" THEN u.o
  ELSE << >>

hasOwnProperty(es, name) == \E n \in 1..Len(es) : es[n].k = name

\* input[name]
Get(es, name) ==
  IF hasOwnProperty(es, name)
  THEN es[CHOOSE n \in 1..Len(es) : es[n].k = name].v
  ELSE Undefined

\* output[name] = v on a plain object: a new key is added last, an existing one
\* keeps its place.
Put(es, name, v) ==
  IF hasOwnProperty(es, name)
  THEN [n \in 1..Len(es) |-> IF es[n].k = name THEN [k |-> name, v |-> v] ELSE es[n]]
  ELSE Append(es, [k |-> name, v |-> v])

ownKeys(u) == [n \in 1..Len(Entries(u)) |-> Entries(u)[n].k]

Range(q) == {q[n] : n \in 1..Len(q)}

\* The concatenation of a sequence of sequences.
RECURSIVE Flatten(_)
Flatten(qs) == IF qs = << >> THEN << >> ELSE Head(qs) \o Flatten(Tail(qs))

-----------------------------------------------------------------------------
(* ParseError and ParseResult *)

PEtype(ast, actual) == [_tag |-> "Type", expected |-> ast, actual |-> actual]

PEmissing == [_tag |-> "Missing"]

PEunexpected(actual) == [_tag |-> "Unexpected", actual |-> actual]

PEequal(expected, actual) == [_tag |-> "Equal", expected |-> expected, actual |-> actual]

PEtransform(from, to, actual) ==
  [_tag |-> "Transform", from |-> from, to |-> to, actual |-> actual]

PEindex(i, errors) == [_tag |-> "Index", index |-> i, errors |-> errors]

PEkey(k, errors) == [_tag |-> "Key", key |-> k, errors |-> errors]

PEmember(errors) == [_tag |-> "Member", errors |-> errors]

PEsuccess(a) == [_tag |-> "Right", right |-> a]

PEfailure(e) == [_tag |-> "Left", left |-> <<e>>]

PEfailures(es) == [_tag |-> "Left", left |-> es]

PEwarnings(es, a) == [_tag |-> "Both", left |-> es, right |-> a]

isFailure(t) == t._tag = "Left"

isSuccess(t) == t._tag = "Right"

hasWarnings(t) == t._tag = "Both"

isUnexpected(e) == e._tag = "Unexpected"

isNonEmpty(es) == Len(es) > 0

mutableAppend(es, e) == Append(es, e)

some(es, P(_)) == \E n \in 1..Len(es) : P(es[n])

hasUnexpectedError(e) ==
  \/ (e._tag = "Key" /\ some(e.errors, isUnexpected))
  \/ (e._tag = "Index" /\ some(e.errors, isUnexpected))

\* es.filter(hasUnexpectedError).length
countUnexpected(es) == Cardinality({n \in 1..Len(es) : hasUnexpectedError(es[n])})

fromRefinement(ok, u, onFalse) == IF ok THEN PEsuccess(u) ELSE PEfailure(onFalse)

-----------------------------------------------------------------------------
(* AST nodes *)

stringKeyword == [_tag |-> "StringKeyword"]

numberKeyword == [_tag |-> "NumberKeyword"]

booleanKeyword == [_tag |-> "BooleanKeyword"]

bigIntKeyword == [_tag |-> "BigIntKeyword"]

symbolKeyword == [_tag |-> "SymbolKeyword"]

unknownKeyword == [_tag |-> "UnknownKeyword"]

neverKeyword == [_tag |-> "NeverKeyword"]

undefinedKeyword == [_tag |-> "UndefinedKeyword"]

literal(v) == [_tag |-> "Literal", literal |-> v]

element(type, isOptional) == [type |-> type, isOptional |-> isOptional]

\* rest is Option<NonEmptyReadonlyArray<AST>>: << >> is none, a non-empty
\* sequence is some(head followed by the post-rest tail).
tuple(elements, rest, isReadonly) ==
  [_tag |-> "Tuple", elements |-> elements, rest |-> rest, isReadonly |-> isReadonly]

propertySignature(name, type, isOptional) ==
  [name |-> name, type |-> type, isOptional |-> isOptional]

indexSignature(parameter, type, isReadonly) ==
  [parameter |-> parameter, type |-> type, isReadonly |-> isReadonly]

typeLiteral(propertySignatures, indexSignatures) ==
  [_tag |-> "TypeLiteral", propertySignatures |-> propertySignatures,
   indexSignatures |-> indexSignatures]

union(types) == [_tag |-> "Union", types |-> types]

\* A TypeAlias node; hook names the handler of its parser hook annotation,
\* "none" without the annotation.
typeAlias(typeParameters, type, hook) ==
  [_tag |-> "TypeAlias", typeParameters |-> typeParameters, type |-> type, hook |-> hook]

\* getHook(ast): the handler of the parser hook annotation of the node, if any.
getHook(ast) ==
  IF "hook" \in DOMAIN ast /\ ast.hook # "none" THEN <<ast.hook>> ELSE << >>

\* A Lazy node: its thunk f is LazyF(identifier).
lazy(identifier) == [_tag |-> "Lazy", identifier |-> identifier]

\* A Refinement node: its decode function is RefinementDecode(decode, _).
refinement(from, decode) == [_tag |-> "Refinement", from |-> from, decode |-> decode]

\* A Transform node: its legs are TransformDecode(decode, _, _) and
\* TransformEncode(encode, _, _).
transform(from, to, decode, encode) ==
  [_tag |-> "Transform", from |-> from, to |-> to, decode |-> decode, encode |-> encode]

unknownArray == tuple(<< >>, <<unknownKeyword>>, TRUE)

unknownRecord ==
  typeLiteral(<< >>, <<indexSignature(stringKeyword, unknownKeyword, TRUE),
                       indexSignature(symbolKeyword, unknownKeyword, TRUE)>>)

primitive == union(<<stringKeyword, numberKeyword, booleanKeyword>>)

array(item) == tuple(<< >>, <<item>>, TRUE)

\* Tree = {value: number, children: Tree[]}
TreeBody ==
  typeLiteral(<<propertySignature("value", numberKeyword, FALSE),
                propertySignature("children", array(lazy("Tree")), FALSE)>>, << >>)

\* Loop = string | Loop: a recursive reference that is under no tuple element
\* and no property.
LoopBody == union(<<stringKeyword, lazy("Loop")>>)

\* ast.f() of the Lazy nodes the model uses.
LazyF(identifier) == IF identifier = "Loop" THEN LoopBody ELSE TreeBody

-----------------------------------------------------------------------------
(* The functions carried by the Refinement and Transform nodes of the model *)

\* Number(s) / String(n) on the numerals the model uses; << >> when s is no numeral.
NumeralOf(s) ==
  CASE s = "0" -> <<0>> [] s = "1" -> <<1>> [] s = "2" -> <<2>> [] s = "3" -> <<3>>
    [] OTHER -> << >>

StringOf(n) ==
  CASE n = 0 -> "0" [] n = 1 -> "1" [] n = 2 -> "2" [] n = 3 -> "3" [] OTHER -> "NaN"

\* ast.decode of a Refinement node.
RefinementDecode(ast, a) ==
  CASE ast.decode = "positive" ->
         IF isNumber(a) /\ a.n > 0 THEN PEsuccess(a) ELSE PEfailure(PEtype(ast, a))
    [] ast.decode = "notB" ->
         IF isString(a) /\ a.s # "b" THEN PEsuccess(a) ELSE PEfailure(PEtype(ast, a))
    [] OTHER -> PEsuccess(a)

\* ast.decode of a Transform node.
TransformDecode(ast, a, options) ==
  CASE ast.decode = "parseNumber" ->
         IF isString(a) /\ NumeralOf(a.s) # << >>
         THEN PEsuccess(Num(NumeralOf(a.s)[1]))
         ELSE PEfailure(PEtransform(ast.from, ast.to, a))
    [] ast.decode = "wrap" -> PEsuccess(Arr(<<a>>))
    [] OTHER -> PEsuccess(a)

\* ast.encode of a Transform node.
TransformEncode(ast, a, options) ==
  CASE ast.encode = "numberToString" ->
         IF isNumber(a) THEN PEsuccess(Str(StringOf(a.n)))
         ELSE PEfailure(PEtransform(ast.to, ast.from, a))
    [] ast.encode = "constOne" -> PEsuccess(Str("1"))
    [] ast.encode = "unwrap" ->
         IF isArray(a) /\ Len(a.a) = 1 THEN PEsuccess(a.a[1])
         ELSE PEfailure(PEtransform(ast.to, ast.from, a))
    [] OTHER -> PEsuccess(a)

\* BigInt(u) for a string, number or boolean u: << >> when it throws (a
\* string that is no numeral, a number that is no integer).
BigInt(u) ==
  CASE isString(u) -> IF NumeralOf(u.s) # << >>
                      THEN <<[t |-> "bigint", n |-> NumeralOf(u.s)[1]]>> ELSE << >>
    [] isNumber(u) -> IF "frac" \in DOMAIN u THEN << >> ELSE <<[t |-> "bigint", n |-> u.n]>>
    [] OTHER -> <<[t |-> "bigint", n |-> IF u.b THEN 1 ELSE 0]>>

\* I.flatMap(f)(self), with fr = f(self.right): a failure of either side is
\* passed through, warnings are kept.
flatMap(self, fr) ==
  IF isFailure(self) THEN self
  ELSE IF isSuccess(self) THEN fr
  ELSE IF isFailure(fr) THEN fr
  ELSE IF isSuccess(fr) THEN PEwarnings(self.left, fr.right)
  ELSE PEwarnings(self.left \o fr.left, fr.right)

\* I.getKeysForIndexSignature(input, parameter): the string keys for a string
\* (or refined string) parameter; the model's objects have no symbol keys.
RECURSIVE getKeysForIndexSignature(_, _)
getKeysForIndexSignature(u, parameter) ==
  CASE parameter._tag = "StringKeyword" -> ownKeys(u)
    [] parameter._tag = "Refinement" -> getKeysForIndexSignature(u, parameter.from)
    [] OTHER -> << >>

-----------------------------------------------------------------------------
(* parserFor.  A compiled parser is described by what it does next, given   *)
(* its local variables st: it returns a result, it calls the parser of one  *)
(* of its children on a value, or it runs an iteration of a loop that calls *)
(* no parser (Pending); and by its local variables after that iteration or  *)
(* after the child returned t (Resume).  go(ast, as, u, options) is         *)
(* go(ast).parse(u, options) in the direction as: the parser run to its     *)
(* return.                                                                  *)

None == [_tag |-> "None"]

doReturn(t) == [kind |-> "return", t |-> t]

doCall(kid, u) == [kind |-> "call", kid |-> kid, u |-> u]

doLocal == [kind |-> "local"]

push(st, e) == [st EXCEPT !.es = Append(@, e)]

\* A fatal error that sets isLeft and is not pushed.
pushLeftWithoutError(st, e) == [st EXCEPT !.isLeft = TRUE]

pushLeft(st, e) == [st EXCEPT !.es = Append(@, e), !.isLeft = TRUE]

return(st, t) == [st EXCEPT !.ret = <<t>>]

\* A "compute output" that does not look at isLeft.
computeOutputWithoutIsLeft(st, output) ==
  IF isNonEmpty(st.es) THEN PEwarnings(st.es, output) ELSE PEsuccess(output)

\* "compute output" of the Tuple and TypeLiteral parsers.
computeOutput(st, output) ==
  IF isNonEmpty(st.es)
  THEN IF st.isLeft THEN PEfailures(st.es) ELSE PEwarnings(st.es, output)
  ELSE PEsuccess(output)

(* Tuple *)

\* The local variables of the Tuple parser: ret is << >> until the parser
\* returns from inside a loop, then <<the result>>.
TupleLocals ==
  [output |-> << >>, es |-> << >>, isLeft |-> FALSE, i |-> 0, j |-> 0, ret |-> << >>]

\* One iteration of the elements loop, with its i++; t is the result of the
\* element's parser when the element is present.
TupleElement(ast, u, options, st, t) ==
  LET i == st.i IN
  IF Len(u.a) < i + 1
  THEN IF ast.elements[i + 1].isOptional
       THEN [st EXCEPT !.i = i + 1]
       ELSE LET e == PEindex(i, <<PEmissing>>) IN
            IF options.allErrors
            THEN [pushLeft(st, e) EXCEPT !.i = i + 1]
            ELSE return(st, PEfailure(e))
  ELSE IF isFailure(t)
       THEN LET e == PEindex(i, t.left) IN
            IF options.allErrors
            THEN [pushLeft(st, e) EXCEPT !.i = i + 1]
            ELSE return(st, PEfailures(mutableAppend(st.es, e)))
       ELSE LET st1 == IF hasWarnings(t) THEN push(st, PEindex(i, t.left)) ELSE st IN
            [st1 EXCEPT !.output = Append(@, t.right), !.i = i + 1]

\* A rest item whose errors are passed on without their Index.
TupleRestItemUnwrapped(options, st, t) ==
  LET i == st.i IN
  IF isFailure(t)
  THEN IF options.allErrors
       THEN [st EXCEPT !.es = @ \o t.left, !.isLeft = TRUE, !.i = i + 1]
       ELSE return(st, PEfailures(st.es \o t.left))
  ELSE LET st1 == IF hasWarnings(t) THEN push(st, PEindex(i, t.left)) ELSE st IN
       [st1 EXCEPT !.output = Append(@, t.right), !.i = i + 1]

\* One iteration of the rest loop, with its i++; t is the result of head.
TupleRestItem(options, st, t) ==
  LET i == st.i IN
  IF isFailure(t)
  THEN LET e == PEindex(i, t.left) IN
       IF options.allErrors
       THEN [pushLeft(st, e) EXCEPT !.i = i + 1]
       ELSE return(st, PEfailures(mutableAppend(st.es, e)))
  ELSE LET st1 == IF hasWarnings(t) THEN push(st, PEindex(i, t.left)) ELSE st IN
       [st1 EXCEPT !.output = Append(@, t.right), !.i = i + 1]

\* One iteration of the post rest loop: i += j, the body, and j++; t is the
\* result of tail[j] when the element is present.
TuplePostRestItem(u, options, st, t) ==
  LET j == st.j
      i == st.i + j
      sti == [st EXCEPT !.i = i, !.j = j + 1] IN
  IF Len(u.a) < i + 1
  THEN return(sti, PEfailures(mutableAppend(st.es, PEindex(i, <<PEmissing>>))))
  ELSE IF isFailure(t)
       THEN LET e == PEindex(i, t.left) IN
            IF options.allErrors
            THEN pushLeft(sti, e)
            ELSE return(sti, PEfailures(mutableAppend(st.es, e)))
       ELSE LET st1 == IF hasWarnings(t) THEN push(sti, PEindex(i, t.left)) ELSE sti IN
            [st1 EXCEPT !.output = Append(@, t.right)]

\* An unexpected indexes loop that records a fatal error and goes on, whatever
\* allErrors is.
TupleUnexpectedIndexGoesOn(u, options, st) ==
  LET i == st.i
      e == PEindex(i, <<PEunexpected(u.a[i + 1])>>) IN
  IF options.isUnexpectedAllowed
  THEN [push(st, e) EXCEPT !.i = i + 1]
  ELSE [pushLeft(st, e) EXCEPT !.i = i + 1]

\* One iteration of the unexpected indexes loop, with its i++.
TupleUnexpectedIndex(u, options, st) ==
  LET i == st.i
      e == PEindex(i, <<PEunexpected(u.a[i + 1])>>) IN
  IF options.isUnexpectedAllowed
  THEN [push(st, e) EXCEPT !.i = i + 1]
  ELSE IF options.allErrors
       THEN [pushLeft(st, e) EXCEPT !.i = i + 1]
       ELSE return(st, PEfailures(mutableAppend(st.es, e)))

\* The parsers go compiles for a Tuple: the elements', then the rest's.
TupleKids(ast) == [n \in 1..Len(ast.elements) |-> ast.elements[n].type] \o ast.rest

\* A Tuple parser whose rest loop runs to the end of the input, the post-rest
\* tail included.
TuplePendingRestToTheEnd(ast, u, st) ==
  LET n == Len(ast.elements)
      len == IF isArray(u) THEN Len(u.a) ELSE 0 IN
  IF ~isArray(u) THEN doReturn(PEfailure(PEtype(unknownArray, u)))
  ELSE IF st.ret # << >> THEN doReturn(st.ret[1])
  ELSE IF st.i < n
       THEN IF len < st.i + 1 THEN doLocal ELSE doCall(st.i + 1, u.a[st.i + 1])
  ELSE IF ast.rest # << >>
       THEN IF st.i < len
            THEN doCall(n + 1, u.a[st.i + 1])
            ELSE IF st.j < Len(Tail(ast.rest))
                 THEN IF len < st.i + st.j + 1 THEN doLocal
                      ELSE doCall(n + 1 + st.j + 1, u.a[st.i + st.j + 1])
                 ELSE doReturn(computeOutput(st, Arr(st.output)))
  ELSE IF st.i < len THEN doLocal
  ELSE doReturn(computeOutput(st, Arr(st.output)))

\* A Tuple parser that returns the input array itself when it recorded no
\* error.
TuplePendingReturnsInput(ast, u, st) ==
  LET n == Len(ast.elements)
      len == IF isArray(u) THEN Len(u.a) ELSE 0
      done == IF isNonEmpty(st.es) THEN computeOutput(st, Arr(st.output)) ELSE PEsuccess(u) IN
  IF ~isArray(u) THEN doReturn(PEfailure(PEtype(unknownArray, u)))
  ELSE IF st.ret # << >> THEN doReturn(st.ret[1])
  ELSE IF st.i < n
       THEN IF len < st.i + 1 THEN doLocal ELSE doCall(st.i + 1, u.a[st.i + 1])
  ELSE IF ast.rest # << >>
       THEN IF st.i < len - Len(Tail(ast.rest))
            THEN doCall(n + 1, u.a[st.i + 1])
            ELSE IF st.j < Len(Tail(ast.rest))
                 THEN IF len < st.i + st.j + 1 THEN doLocal
                      ELSE doCall(n + 1 + st.j + 1, u.a[st.i + st.j + 1])
                 ELSE doReturn(done)
  ELSE IF st.i < len THEN doLocal
  ELSE doReturn(done)

\* The Tuple parser: the array test, then the loops over the elements, the
\* rest and the post rest elements, or over the unexpected indexes.
TuplePending(ast, u, st) ==
  LET n == Len(ast.elements)
      len == IF isArray(u) THEN Len(u.a) ELSE 0 IN
  IF ~isArray(u) THEN doReturn(PEfailure(PEtype(unknownArray, u)))
  ELSE IF st.ret # << >> THEN doReturn(st.ret[1])
  ELSE IF st.i < n
       THEN IF len < st.i + 1 THEN doLocal ELSE doCall(st.i + 1, u.a[st.i + 1])
  ELSE IF ast.rest # << >>
       THEN IF st.i < len - Len(Tail(ast.rest))
            THEN doCall(n + 1, u.a[st.i + 1])
            ELSE IF st.j < Len(Tail(ast.rest))
                 THEN IF len < st.i + st.j + 1 THEN doLocal
                      ELSE doCall(n + 1 + st.j + 1, u.a[st.i + st.j + 1])
                 ELSE doReturn(computeOutput(st, Arr(st.output)))
  ELSE IF st.i < len THEN doLocal
  ELSE doReturn(computeOutput(st, Arr(st.output)))

TupleResume(ast, u, options, st, t) ==
  IF st.i < Len(ast.elements) THEN TupleElement(ast, u, options, st, t)
  ELSE IF ast.rest # << >>
       THEN IF st.i < Len(u.a) - Len(Tail(ast.rest))
            THEN TupleRestItem(options, st, t)
            ELSE TuplePostRestItem(u, options, st, t)
  ELSE TupleUnexpectedIndex(u, options, st)

(* TypeLiteral *)

\* The local variables of the TypeLiteral parser: i counts the property
\* signatures, s the index signatures, k the keys of the index signature s
\* (or the own keys, in the unexpected keys loop); val holds while the key k
\* has been parsed and its value has not.
TypeLiteralLocals ==
  [output |-> << >>, expectedKeys |-> {}, es |-> << >>, isLeft |-> FALSE,
   i |-> 0, s |-> 0, k |-> 0, val |-> FALSE, ret |-> << >>]

\* A property signatures loop that takes a key whose value is undefined for
\* an absent key.
TypeLiteralPropertyUndefinedIsAbsent(ast, u, options, st, t) ==
  LET ps == ast.propertySignatures[st.i + 1]
      name == ps.name
      stn == [st EXCEPT !.expectedKeys = @ \cup {name}, !.i = @ + 1] IN
  IF ~hasOwnProperty(Entries(u), name) \/ isUndefined(Get(Entries(u), name))
  THEN IF ps.isOptional THEN stn
       ELSE LET e == PEkey(name, <<PEmissing>>) IN
            IF options.allErrors THEN pushLeft(stn, e)
            ELSE return(stn, PEfailure(e))
  ELSE IF isFailure(t)
       THEN LET e == PEkey(name, t.left) IN
            IF options.allErrors THEN pushLeft(stn, e)
            ELSE return(stn, PEfailures(mutableAppend(st.es, e)))
       ELSE LET st1 == IF hasWarnings(t) THEN push(stn, PEkey(name, t.left)) ELSE stn IN
            [st1 EXCEPT !.output = Put(@, name, t.right)]

\* One iteration of the property signatures loop, with its i++; t is the
\* result of the property's parser when the key is present.
TypeLiteralProperty(ast, u, options, st, t) ==
  LET ps == ast.propertySignatures[st.i + 1]
      name == ps.name
      stn == [st EXCEPT !.expectedKeys = @ \cup {name}, !.i = @ + 1] IN
  IF ~hasOwnProperty(Entries(u), name)
  THEN IF ps.isOptional THEN stn
       ELSE LET e == PEkey(name, <<PEmissing>>) IN
            IF options.allErrors THEN pushLeft(stn, e)
            ELSE return(stn, PEfailure(e))
  ELSE IF isFailure(t)
       THEN LET e == PEkey(name, t.left) IN
            IF options.allErrors THEN pushLeft(stn, e)
            ELSE return(stn, PEfailures(mutableAppend(st.es, e)))
       ELSE LET st1 == IF hasWarnings(t) THEN push(stn, PEkey(name, t.left)) ELSE stn IN
            [st1 EXCEPT !.output = Put(@, name, t.right)]

\* A "handle keys" that, with allErrors, goes on to the value of a key that
\* failed.
TypeLiteralIndexKeyThenValue(key, options, st, t) ==
  IF isFailure(t)
  THEN LET e == PEkey(key, t.left) IN
       IF options.allErrors THEN [pushLeft(st, e) EXCEPT !.val = TRUE]
       ELSE return(st, PEfailures(mutableAppend(st.es, e)))
  ELSE LET st1 == IF hasWarnings(t) THEN push(st, PEkey(key, t.left)) ELSE st IN
       [st1 EXCEPT !.val = TRUE]

\* "handle keys" of an iteration over the keys of an index signature; t is
\* the result of the parameter's parser on the key.
TypeLiteralIndexKey(key, options, st, t) ==
  IF isFailure(t)
  THEN LET e == PEkey(key, t.left) IN
       IF options.allErrors THEN [pushLeft(st, e) EXCEPT !.k = @ + 1]
       ELSE return(st, PEfailures(mutableAppend(st.es, e)))
  ELSE LET st1 == IF hasWarnings(t) THEN push(st, PEkey(key, t.left)) ELSE st IN
       [st1 EXCEPT !.val = TRUE]

\* "handle values" of the same iteration; t is the result of the type's
\* parser on input[key].
TypeLiteralIndexValue(key, options, st, t) ==
  LET stn == [st EXCEPT !.k = @ + 1, !.val = FALSE] IN
  IF isFailure(t)
  THEN LET e == PEkey(key, t.left) IN
       IF options.allErrors THEN pushLeft(stn, e)
       ELSE return(stn, PEfailures(mutableAppend(st.es, e)))
  ELSE LET st1 == IF hasWarnings(t) THEN push(stn, PEkey(key, t.left)) ELSE stn IN
       [st1 EXCEPT !.output = Put(@, key, t.right)]

\* An unexpected key that is fatal whatever isUnexpectedAllowed is.
TypeLiteralUnexpectedKeyAlwaysFatal(key, u, options, st) ==
  LET stn == [st EXCEPT !.k = @ + 1] IN
  IF key \in st.expectedKeys THEN stn
  ELSE LET e == PEkey(key, <<PEunexpected(Get(Entries(u), key))>>) IN
       IF options.allErrors THEN pushLeft(stn, e)
       ELSE return(stn, PEfailures(mutableAppend(st.es, e)))

\* One iteration of the unexpected keys loop over I.ownKeys(input).
TypeLiteralUnexpectedKey(key, u, options, st) ==
  LET stn == [st EXCEPT !.k = @ + 1] IN
  IF key \in st.expectedKeys THEN stn
  ELSE LET e == PEkey(key, <<PEunexpected(Get(Entries(u), key))>>) IN
       IF options.isUnexpectedAllowed THEN push(stn, e)
       ELSE IF options.allErrors THEN pushLeft(stn, e)
            ELSE return(stn, PEfailures(mutableAppend(st.es, e)))

\* The parsers go compiles for a TypeLiteral: the property signatures', then
\* the parameter's and the type's of each index signature.
TypeLiteralKids(ast) ==
  [n \in 1..Len(ast.propertySignatures) |-> ast.propertySignatures[n].type]
    \o Flatten([n \in 1..Len(ast.indexSignatures) |->
                  <<ast.indexSignatures[n].parameter, ast.indexSignatures[n].type>>])

\* The keys of the index signature the loop is at.
TypeLiteralKeys(ast, u, st) ==
  getKeysForIndexSignature(u, ast.indexSignatures[st.s + 1].parameter)

\* A TypeLiteral parser whose object test is typeof input === "object".
TypeLiteralPendingNullAsObject(ast, u, st) ==
  LET np == Len(ast.propertySignatures)
      ns == Len(ast.indexSignatures) IN
  IF np = 0 /\ ns = 0 THEN doReturn(fromRefinement(isNotNull(u), u, PEtype(ast, u)))
  ELSE IF ~isUnknownObject(u) /\ u.t # "null" THEN doReturn(PEfailure(PEtype(unknownRecord, u)))
  ELSE IF st.ret # << >> THEN doReturn(st.ret[1])
  ELSE IF st.i < np
       THEN LET name == ast.propertySignatures[st.i + 1].name IN
            IF ~hasOwnProperty(Entries(u), name) THEN doLocal
            ELSE doCall(st.i + 1, Get(Entries(u), name))
  ELSE IF ns > 0
       THEN IF st.s < ns
            THEN LET keys == TypeLiteralKeys(ast, u, st) IN
                 IF st.k < Len(keys)
                 THEN IF ~st.val
                      THEN doCall(np + 2 * st.s + 1, Str(keys[st.k + 1]))
                      ELSE doCall(np + 2 * st.s + 2, Get(Entries(u), keys[st.k + 1]))
                 ELSE doLocal
            ELSE doReturn(computeOutput(st, Obj(st.output)))
  ELSE IF st.k < Len(ownKeys(u)) THEN doLocal
  ELSE doReturn(computeOutput(st, Obj(st.output)))

\* The TypeLiteral parser: the empty record's test, or the object test and the
\* loops over the property signatures and over the index signatures and their
\* keys, or over the unexpected keys.
TypeLiteralPending(ast, u, st) ==
  LET np == Len(ast.propertySignatures)
      ns == Len(ast.indexSignatures) IN
  IF np = 0 /\ ns = 0 THEN doReturn(fromRefinement(isNotNull(u), u, PEtype(ast, u)))
  ELSE IF ~isUnknownObject(u) THEN doReturn(PEfailure(PEtype(unknownRecord, u)))
  ELSE IF st.ret # << >> THEN doReturn(st.ret[1])
  ELSE IF st.i < np
       THEN LET name == ast.propertySignatures[st.i + 1].name IN
            IF ~hasOwnProperty(Entries(u), name) THEN doLocal
            ELSE doCall(st.i + 1, Get(Entries(u), name))
  ELSE IF ns > 0
       THEN IF st.s < ns
            THEN LET keys == TypeLiteralKeys(ast, u, st) IN
                 IF st.k < Len(keys)
                 THEN IF ~st.val
                      THEN doCall(np + 2 * st.s + 1, Str(keys[st.k + 1]))
                      ELSE doCall(np + 2 * st.s + 2, Get(Entries(u), keys[st.k + 1]))
                 ELSE doLocal
            ELSE doReturn(computeOutput(st, Obj(st.output)))
  ELSE IF st.k < Len(ownKeys(u)) THEN doLocal
  ELSE doReturn(computeOutput(st, Obj(st.output)))

TypeLiteralResume(ast, u, options, st, t) ==
  IF st.i < Len(ast.propertySignatures) THEN TypeLiteralProperty(ast, u, options, st, t)
  ELSE IF Len(ast.indexSignatures) > 0
       THEN LET keys == TypeLiteralKeys(ast, u, st) IN
            IF st.k < Len(keys)
            THEN IF ~st.val THEN TypeLiteralIndexKey(keys[st.k + 1], options, st, t)
                 ELSE TypeLiteralIndexValue(keys[st.k + 1], options, st, t)
            ELSE [st EXCEPT !.s = @ + 1, !.k = 0]
  ELSE TypeLiteralUnexpectedKey(ownKeys(u)[st.k + 1], u, options, st)

(* Union *)

\* The local variables of the Union parser: output is << >> for null.
UnionLocals == [es |-> << >>, output |-> << >>, i |-> 0, ret |-> << >>]

\* A union that keeps no first warning candidate (the test for a null output
\* is lost).
UnionMemberWithoutFirstCandidate(st, t) ==
  LET stn == [st EXCEPT !.i = @ + 1] IN
  IF isSuccess(t) THEN return(stn, t)
  ELSE IF hasWarnings(t)
       THEN IF st.output # << >>
               /\ countUnexpected(st.output[1].left) > countUnexpected(t.left)
            THEN [stn EXCEPT !.output = <<t>>]
            ELSE stn
       ELSE push(stn, PEmember(t.left))

\* A union that collects the errors of a failed member without the Member
\* around them.
UnionMemberUnwrapped(st, t) ==
  LET stn == [st EXCEPT !.i = @ + 1] IN
  IF isSuccess(t) THEN return(stn, t)
  ELSE IF hasWarnings(t)
       THEN IF st.output = << >>
               \/ countUnexpected(st.output[1].left) > countUnexpected(t.left)
            THEN [stn EXCEPT !.output = <<t>>]
            ELSE stn
       ELSE [stn EXCEPT !.es = @ \o t.left]

\* A union that replaces its warning candidate by a later one with as few
\* unexpected errors.
UnionMemberLastOfTies(st, t) ==
  LET stn == [st EXCEPT !.i = @ + 1] IN
  IF isSuccess(t) THEN return(stn, t)
  ELSE IF hasWarnings(t)
       THEN IF st.output = << >>
               \/ countUnexpected(st.output[1].left) >= countUnexpected(t.left)
            THEN [stn EXCEPT !.output = <<t>>]
            ELSE stn
       ELSE push(stn, PEmember(t.left))

\* One iteration of the "compute best output" loop, with its i++; t is the
\* result of types[i].
UnionMember(st, t) ==
  LET stn == [st EXCEPT !.i = @ + 1] IN
  IF isSuccess(t) THEN return(stn, t)
  ELSE IF hasWarnings(t)
       THEN IF st.output = << >>
               \/ countUnexpected(st.output[1].left) > countUnexpected(t.left)
            THEN [stn EXCEPT !.output = <<t>>]
            ELSE stn
       ELSE push(stn, PEmember(t.left))

\* A union that goes on to the next members after a Success, and returns the
\* Success at the end.
UnionPendingAfterSuccess(ast, u, st) ==
  IF st.i < Len(ast.types) THEN doCall(st.i + 1, u)
  ELSE IF st.ret # << >> THEN doReturn(st.ret[1])
  ELSE IF st.output # << >> THEN doReturn(st.output[1])
  ELSE IF isNonEmpty(st.es) THEN doReturn(PEfailures(st.es))
  ELSE doReturn(PEfailure(PEtype(neverKeyword, u)))

UnionPending(ast, u, st) ==
  IF st.ret # << >> THEN doReturn(st.ret[1])
  ELSE IF st.i < Len(ast.types) THEN doCall(st.i + 1, u)
  ELSE IF st.output # << >> THEN doReturn(st.output[1])
  ELSE IF isNonEmpty(st.es) THEN doReturn(PEfailures(st.es))
  ELSE doReturn(PEfailure(PEtype(neverKeyword, u)))

(* Lazy, Refinement, Transform *)

\* The local variables of a parser that calls one parser: self is the result
\* of the first step, ret the result to return.
CallLocals == [self |-> << >>, ret |-> << >>]

\* get().parse(a, options)
LazyPending(u, st) == IF st.ret # << >> THEN doReturn(st.ret[1]) ELSE doCall(1, u)

\* pipe(type.parse(u, options), I.flatMap(ast.decode))
RefinementPending(u, st) == IF st.ret # << >> THEN doReturn(st.ret[1]) ELSE doCall(1, u)

\* A Refinement parser whose decode is given the value the parser was called
\* with.
RefinementResumeOnInput(ast, u, st, t) ==
  return(st, flatMap(t, IF isFailure(t) THEN t ELSE RefinementDecode(ast, u)))

RefinementResume(ast, u, st, t) ==
  return(st, flatMap(t, IF isFailure(t) THEN t ELSE RefinementDecode(ast, t.right)))

\* An encoder that parses the supplied value with `from`.
TransformPendingFromOnInput(as, u, st) ==
  IF st.ret # << >> THEN doReturn(st.ret[1])
  ELSE IF as = "encoder"
       THEN IF st.self = << >> THEN doLocal ELSE doCall(1, u)
       ELSE doCall(1, u)

\* The decoder parses with `from`; the encoder runs ast.encode, then parses
\* its result with `from`.
TransformPending(as, u, st) ==
  IF st.ret # << >> THEN doReturn(st.ret[1])
  ELSE IF as = "encoder"
       THEN IF st.self = << >> THEN doLocal ELSE doCall(1, st.self[1].right)
       ELSE doCall(1, u)

\* A decoder that returns what `from` parsed, without ast.decode.
TransformResumeWithoutDecode(ast, as, u, options, st, t) ==
  IF as = "encoder"
  THEN IF st.self = << >>
       THEN LET self == TransformEncode(ast, u, options) IN
            IF isFailure(self) THEN return(st, self) ELSE [st EXCEPT !.self = <<self>>]
       ELSE return(st, flatMap(st.self[1], t))
  ELSE return(st, t)

TransformResume(ast, as, u, options, st, t) ==
  IF as = "encoder"
  THEN IF st.self = << >>
       THEN LET self == TransformEncode(ast, u, options) IN
            IF isFailure(self) THEN return(st, self) ELSE [st EXCEPT !.self = <<self>>]
       ELSE return(st, flatMap(st.self[1], t))
  ELSE return(st, flatMap(t, IF isFailure(t) THEN t
                             ELSE TransformDecode(ast, t.right, options)))

\* The parser a handler returns for the parsers of the type parameters:
\* "orUndefined" is (item) => make(..., (u, options) => u === undefined ?
\* PE.success(u) : item.parse(u, options)), "anything" is () => make(...,
\* PE.success).
HandlerPending(ast, u, st) ==
  IF st.ret # << >> THEN doReturn(st.ret[1])
  ELSE IF ast.hook = "orUndefined" /\ ~isUndefined(u) THEN doCall(1, u)
  ELSE doReturn(PEsuccess(u))

(* The parsers without children *)

\* A bigint parser that reports the bigint node for an input of a wrong type.
BigIntKeywordExpectsBigInt(ast, u) ==
  IF u.t = "bigint" THEN PEsuccess(u)
  ELSE IF isString(u) \/ isNumber(u) \/ isBoolean(u)
       THEN IF BigInt(u) # << >> THEN PEsuccess(BigInt(u)[1])
            ELSE PEfailure(PEtransform(primitive, ast, u))
       ELSE PEfailure(PEtype(ast, u))

BigIntKeyword(ast, u) ==
  IF u.t = "bigint" THEN PEsuccess(u)
  ELSE IF isString(u) \/ isNumber(u) \/ isBoolean(u)
       THEN IF BigInt(u) # << >> THEN PEsuccess(BigInt(u)[1])
            ELSE PEfailure(PEtransform(primitive, ast, u))
       ELSE PEfailure(PEtype(primitive, u))

Leaf(ast, u) ==
  CASE ast._tag = "Literal" -> fromRefinement(u = ast.literal, u, PEequal(ast.literal, u))
    [] ast._tag = "UndefinedKeyword" -> fromRefinement(isUndefined(u), u, PEtype(ast, u))
    [] ast._tag = "VoidKeyword" -> fromRefinement(isUndefined(u), u, PEtype(ast, u))
    [] ast._tag = "NeverKeyword" -> PEfailure(PEtype(ast, u))
    [] ast._tag = "UnknownKeyword" -> PEsuccess(u)
    [] ast._tag = "AnyKeyword" -> PEsuccess(u)
    [] ast._tag = "StringKeyword" -> fromRefinement(isString(u), u, PEtype(ast, u))
    [] ast._tag = "NumberKeyword" ->
         IF isNumber(u) THEN PEsuccess(u) ELSE PEfailure(PEtype(ast, u))
    [] ast._tag = "BooleanKeyword" -> fromRefinement(isBoolean(u), u, PEtype(ast, u))
    [] ast._tag = "BigIntKeyword" -> BigIntKeyword(ast, u)
    [] ast._tag = "SymbolKeyword" -> fromRefinement(FALSE, u, PEtype(ast, u))
    [] ast._tag = "ObjectKeyword" -> fromRefinement(isUnknownObject(u), u, PEtype(ast, u))

(* go *)

\* A go that, for a guard, also returns the parser of `from` for a Refinement.
RECURSIVE TargetGuardOfFrom(_, _)
TargetGuardOfFrom(ast, as) ==
  IF ast._tag = "TypeAlias" /\ getHook(ast) = << >> THEN TargetGuardOfFrom(ast.type, as)
  ELSE IF ast._tag = "Transform" /\ as = "guard" THEN TargetGuardOfFrom(ast.to, as)
  ELSE IF ast._tag = "Refinement" /\ as = "guard" THEN TargetGuardOfFrom(ast.from, as)
  ELSE ast

\* A go that compiles the aliased type of every TypeAlias.
RECURSIVE TargetWithoutHook(_, _)
TargetWithoutHook(ast, as) ==
  IF ast._tag = "TypeAlias" THEN TargetWithoutHook(ast.type, as)
  ELSE IF ast._tag = "Transform" /\ as = "guard" THEN TargetWithoutHook(ast.to, as)
  ELSE ast

\* The node whose parser go(ast) is: go returns the parser of the aliased type
\* for a TypeAlias without a hook (with a hook, what the handler returns), and
\* the parser of `to` for a Transform in a guard.
RECURSIVE Target(_, _)
Target(ast, as) ==
  IF ast._tag = "TypeAlias" /\ getHook(ast) = << >> THEN Target(ast.type, as)
  ELSE IF ast._tag = "Transform" /\ as = "guard" THEN Target(ast.to, as)
  ELSE ast

\* The nodes whose parsers the parser of ast calls: those go compiles with it,
\* and for a Lazy node the one its thunk returns.
Kids(ast) ==
  CASE ast._tag = "Tuple" -> TupleKids(ast)
    [] ast._tag = "TypeLiteral" -> TypeLiteralKids(ast)
    [] ast._tag = "Union" -> ast.types
    [] ast._tag = "Lazy" -> <<LazyF(ast.identifier)>>
    [] ast._tag = "Refinement" -> <<ast.from>>
    [] ast._tag = "Transform" -> <<ast.from>>
    [] ast._tag = "TypeAlias" -> ast.typeParameters
    [] OTHER -> << >>

Locals(ast) ==
  CASE ast._tag = "Tuple" -> TupleLocals
    [] ast._tag = "TypeLiteral" -> TypeLiteralLocals
    [] ast._tag = "Union" -> UnionLocals
    [] OTHER -> CallLocals

Pending(ast, as, u, st) ==
  CASE ast._tag = "Tuple" -> TuplePending(ast, u, st)
    [] ast._tag = "TypeLiteral" -> TypeLiteralPending(ast, u, st)
    [] ast._tag = "Union" -> UnionPending(ast, u, st)
    [] ast._tag = "Lazy" -> LazyPending(u, st)
    [] ast._tag = "Refinement" -> RefinementPending(u, st)
    [] ast._tag = "Transform" -> TransformPending(as, u, st)
    [] ast._tag = "TypeAlias" -> HandlerPending(ast, u, st)
    [] OTHER -> doReturn(Leaf(ast, u))

Resume(ast, as, u, options, st, t) ==
  CASE ast._tag = "Tuple" -> TupleResume(ast, u, options, st, t)
    [] ast._tag = "TypeLiteral" -> TypeLiteralResume(ast, u, options, st, t)
    [] ast._tag = "Union" -> UnionMember(st, t)
    [] ast._tag = "Lazy" -> return(st, t)
    [] ast._tag = "Refinement" -> RefinementResume(ast, u, st, t)
    [] ast._tag = "Transform" -> TransformResume(ast, as, u, options, st, t)
    [] ast._tag = "TypeAlias" -> return(st, t)

RECURSIVE go(_, _, _, _)

\* The parser of ast run from the local variables st to its return.
RECURSIVE parse(_, _, _, _, _)
parse(ast, as, u, options, st) ==
  LET next == Pending(ast, as, u, st) IN
  IF next.kind = "return" THEN next.t
  ELSE IF next.kind = "call"
       THEN parse(ast, as, u, options,
                  Resume(ast, as, u, options, st, go(Kids(ast)[next.kid], as, next.u, options)))
       ELSE parse(ast, as, u, options, Resume(ast, as, u, options, st, None))

go(ast, as, u, options) ==
  LET target == Target(ast, as) IN parse(target, as, u, options, Locals(target))

parserFor(schema, as, u, options) == go(schema, as, u, options)

(* Public operations *)

decode(schema, u, options) == parserFor(schema, "decoder", u, options)

\* A guard that takes a Warning for a rejection.
isWithoutWarnings(schema, u, options) == isSuccess(parserFor(schema, "guard", u, options))

is(schema, u, options) == ~isFailure(parserFor(schema, "guard", u, options))

encode(schema, a, options) == parserFor(schema, "encoder", a, options)

\* throw new Error(formatErrors(errors)): the call ends with an exception.
throw(errors) == [_tag |-> "Error", errors |-> errors]

\* The call returns the value a.
returns(a) == [_tag |-> "Return", value |-> a]

\* A decodeOrThrow that throws unless the parse is a Success.
decodeOrThrowOnWarning(schema, u, options) ==
  LET t == parserFor(schema, "decoder", u, options) IN
  IF ~isSuccess(t) THEN throw(t.left) ELSE returns(t.right)

decodeOrThrow(schema, u, options) ==
  LET t == parserFor(schema, "decoder", u, options) IN
  IF isFailure(t) THEN throw(t.left) ELSE returns(t.right)

asserts(schema, u, options) ==
  LET t == parserFor(schema, "guard", u, options) IN
  IF isFailure(t) THEN throw(t.left) ELSE returns(Undefined)

encodeOrThrow(schema, a, options) ==
  LET t == parserFor(schema, "encoder", a, options) IN
  IF isFailure(t) THEN throw(t.left) ELSE returns(t.right)

-----------------------------------------------------------------------------
(* The schemas and inputs the operations are run on *)

MaxLen == 3

MaxDepth == 2

\* All sequences over S of length at most n.
RECURSIVE SeqsUpTo(_, _)
SeqsUpTo(S, n) ==
  IF n = 0 THEN {<< >>}
  ELSE LET shorter == SeqsUpTo(S, n - 1) IN
       shorter \cup {Append(q, e) : q \in {r \in shorter : Len(r) = n - 1}, e \in S}

Scalars == {Str("x"), Num(1), Bool(TRUE)}

FlatArrays == {Arr(q) : q \in SeqsUpTo(Scalars, MaxLen)}

InnerArrays == {Arr(q) : q \in SeqsUpTo({Str("x"), Num(1)}, 2)}

NestedArrays == {Arr(q) : q \in SeqsUpTo(InnerArrays \cup {Str("x")}, 2)}

\* The objects with the given keys in the given order, each key absent or one
\* of the given values.
RECURSIVE ObjectsOver(_, _)
ObjectsOver(keys, values) ==
  IF keys = << >> THEN {<< >>}
  ELSE LET others == ObjectsOver(Tail(keys), values) IN
       others \cup {<<[k |-> Head(keys), v |-> v]>> \o o : v \in values[Head(keys)], o \in others}

RecordValues == {Str("x"), Num(1), Arr(<<Str("x"), Num(1)>>), Arr(<<Str("x")>>)}

RecordObjects ==
  {Obj(o) : o \in ObjectsOver(<<"a", "b", "e">>,
                              [k \in {"a", "b", "e"} |-> RecordValues])}

UnionObjects ==
  {Obj(o) : o \in ObjectsOver(<<"kind", "x", "y", "extra">>,
                              [k \in {"kind", "x", "y", "extra"} |->
                                 CASE k = "kind" -> {Str("a"), Str("b")}
                                   [] k = "x" -> {Num(1)}
                                   [] k = "y" -> {Num(3), Str("x")}
                                   [] OTHER -> {Num(1)}])}

\* Trees of depth at most d, well formed or with a wrong value; a node has at
\* most one child.
RECURSIVE TreeValues(_)
TreeValues(d) ==
  LET kids == IF d = 0 THEN {<< >>}
              ELSE {<< >>} \cup {<<c>> : c \in TreeValues(d - 1)} IN
  {Obj(<<[k |-> "value", v |-> v], [k |-> "children", v |-> Arr(c)]>>) :
     v \in {Num(1), Str("x")}, c \in kids}

OtherInputs == {Str("x"), Num(1), Null, Undefined, Arr(<<Num(1)>>), Obj(<<[k |-> "a", v |-> Num(1)]>>)}

req(type) == element(type, FALSE)

opt(type) == element(type, TRUE)

\* [string, ...number[], boolean]
StringNumbersBoolean == tuple(<<req(stringKeyword)>>, <<numberKeyword, booleanKeyword>>, TRUE)

FlatTuples ==
  { tuple(<< >>, << >>, TRUE),
    tuple(<<req(stringKeyword)>>, << >>, TRUE),
    tuple(<<req(stringKeyword), opt(numberKeyword)>>, << >>, TRUE),
    tuple(<<req(stringKeyword), req(numberKeyword)>>, << >>, TRUE),
    array(numberKeyword),
    StringNumbersBoolean,
    tuple(<< >>, <<numberKeyword, stringKeyword, booleanKeyword>>, TRUE),
    tuple(<<req(stringKeyword)>>, <<numberKeyword, stringKeyword, booleanKeyword>>, TRUE) }

\* Tuples whose post-rest tail has three elements.
LongTailTuples ==
  { tuple(<< >>, <<numberKeyword, stringKeyword, booleanKeyword, stringKeyword>>, TRUE),
    tuple(<<req(stringKeyword)>>,
          <<numberKeyword, booleanKeyword, booleanKeyword, stringKeyword>>, TRUE) }

StringPair == tuple(<<req(stringKeyword)>>, << >>, TRUE)

NestedTuples ==
  { tuple(<<req(StringPair), req(stringKeyword)>>, << >>, TRUE),
    tuple(<<req(StringPair), req(StringPair)>>, << >>, TRUE),
    tuple(<<req(StringPair)>>, <<StringPair, stringKeyword>>, TRUE),
    array(tuple(<<req(stringKeyword), req(numberKeyword)>>, << >>, TRUE)) }

Records ==
  { typeLiteral(<< >>, << >>),
    typeLiteral(<<propertySignature("a", stringKeyword, FALSE),
                  propertySignature("b", numberKeyword, TRUE)>>, << >>),
    typeLiteral(<<propertySignature("a", StringPair, FALSE),
                  propertySignature("b", numberKeyword, FALSE)>>, << >>),
    typeLiteral(<<propertySignature("a", StringPair, TRUE),
                  propertySignature("b", StringPair, FALSE)>>, << >>),
    typeLiteral(<<propertySignature("a", stringKeyword, FALSE),
                  propertySignature("b", stringKeyword, TRUE)>>,
                <<indexSignature(stringKeyword, unknownKeyword, TRUE)>>),
    typeLiteral(<< >>, <<indexSignature(stringKeyword, numberKeyword, TRUE)>>),
    typeLiteral(<< >>, <<indexSignature(stringKeyword, StringPair, TRUE)>>) }

\* {kind: "a", x: number} | {kind: "b", y: number}
KindUnion ==
  union(<<typeLiteral(<<propertySignature("kind", literal(Str("a")), FALSE),
                        propertySignature("x", numberKeyword, FALSE)>>, << >>),
          typeLiteral(<<propertySignature("kind", literal(Str("b")), FALSE),
                        propertySignature("y", numberKeyword, FALSE)>>, << >>)>>)

Unions ==
  { KindUnion,
    union(<< >>),
    union(<<stringKeyword, numberKeyword>>),
    union(<<typeLiteral(<<propertySignature("kind", stringKeyword, FALSE)>>, << >>),
            typeLiteral(<<propertySignature("kind", stringKeyword, FALSE),
                          propertySignature("y", numberKeyword, FALSE)>>, << >>)>>),
    union(<<typeLiteral(<<propertySignature("kind", stringKeyword, FALSE),
                          propertySignature("x", numberKeyword, TRUE)>>, << >>),
            typeLiteral(<<propertySignature("kind", stringKeyword, FALSE),
                          propertySignature("y", numberKeyword, TRUE)>>, << >>),
            typeLiteral(<<propertySignature("kind", stringKeyword, FALSE)>>, << >>)>>) }

\* {b?: number} | {a: [string]}: an extra element of `a` is an unexpected index
\* inside the Key of `a`.
NestedUnexpectedUnion ==
  union(<<typeLiteral(<<propertySignature("b", numberKeyword, TRUE)>>, << >>),
          typeLiteral(<<propertySignature("a", StringPair, FALSE)>>, << >>)>>)

\* Transform(string, number, parseNumber, numberToString)
NumberFromString == transform(stringKeyword, numberKeyword, "parseNumber", "numberToString")

Transforms ==
  { NumberFromString,
    transform(stringKeyword, numberKeyword, "parseNumber", "constOne"),
    transform(unknownKeyword, array(unknownKeyword), "wrap", "unwrap"),
    transform(StringPair, array(StringPair), "wrap", "unwrap"),
    transform(StringPair, numberKeyword, "parseNumber", "numberToString"),
    refinement(StringPair, "positive"),
    refinement(numberKeyword, "positive"),
    refinement(NumberFromString, "positive"),
    tuple(<<req(NumberFromString)>>, << >>, TRUE),
    typeLiteral(<<propertySignature("a", NumberFromString, FALSE)>>, << >>),
    typeLiteral(<<propertySignature("a", NumberFromString, FALSE)>>,
                <<indexSignature(stringKeyword, unknownKeyword, TRUE)>>),
    union(<<NumberFromString, booleanKeyword>>) }

TransformInputs ==
  {Str("1"), Str("2"), Str("x"), Num(1), Num(2), Num(0), Bool(TRUE),
   Arr(<<Str("1")>>), Arr(<<Num(1)>>), Arr(<<Str("x")>>), Arr(<<Str("x"), Num(1)>>),
   Arr(<<Arr(<<Str("x")>>)>>), Arr(<<Arr(<<Str("x"), Num(1)>>)>>),
   Obj(<<[k |-> "a", v |-> Str("1")]>>), Obj(<<[k |-> "a", v |-> Num(1)]>>)}

Trees == {lazy("Tree"), TreeBody}

\* {id: string, name?: string, [k: string]: unknown}
IdName ==
  typeLiteral(<<propertySignature("id", stringKeyword, FALSE),
                propertySignature("name", stringKeyword, TRUE)>>,
              <<indexSignature(stringKeyword, unknownKeyword, TRUE)>>)

\* Tuples and records with optional positions, and inputs in which a position
\* is absent, or present with the value undefined.
OptionalTuples ==
  { tuple(<<req(stringKeyword), opt(numberKeyword)>>, << >>, TRUE),
    tuple(<<opt(stringKeyword), opt(undefinedKeyword)>>, << >>, TRUE),
    tuple(<<req(undefinedKeyword), req(stringKeyword)>>, << >>, TRUE) }

UndefinedArrays == {Arr(q) : q \in SeqsUpTo({Str("x"), Num(1), Undefined}, 2)}

OptionalRecords ==
  { IdName,
    typeLiteral(<<propertySignature("id", stringKeyword, FALSE),
                  propertySignature("name", undefinedKeyword, TRUE)>>, << >>),
    typeLiteral(<<propertySignature("id", undefinedKeyword, FALSE),
                  propertySignature("name", numberKeyword, FALSE)>>, << >>) }

UndefinedObjects ==
  {Obj(o) : o \in ObjectsOver(<<"name", "id">>,
                              [k \in {"name", "id"} |-> {Str("n"), Undefined}])}

\* The number 1.5: a number that is no integer.
OneAndAHalf == [t |-> "number", n |-> 1, frac |-> 5]

BigIntSchemas == {bigIntKeyword, array(bigIntKeyword)}

BigIntScalars ==
  {[t |-> "bigint", n |-> 1], Str("1"), Str("x"), Num(1), OneAndAHalf, Bool(TRUE),
   Bool(FALSE), Null, Undefined}

BigIntInputs ==
  BigIntScalars \cup {Arr(q) : q \in SeqsUpTo(BigIntScalars, 1)} \cup {Obj(<< >>)}

\* A string other than "b".
NotB == refinement(stringKeyword, "notB")

\* Records with index signatures whose key parser rejects the key "b".
IndexRecords ==
  { typeLiteral(<< >>, <<indexSignature(NotB, numberKeyword, TRUE)>>),
    typeLiteral(<<propertySignature("a", stringKeyword, FALSE)>>,
                <<indexSignature(NotB, StringPair, TRUE)>>),
    typeLiteral(<< >>, <<indexSignature(stringKeyword, unknownKeyword, TRUE),
                         indexSignature(NotB, numberKeyword, TRUE)>>) }

IndexObjects ==
  {Obj(o) : o \in ObjectsOver(<<"a", "b", "e">>,
                              [k \in {"a", "b", "e"} |->
                                 {Str("x"), Num(1), Arr(<<Str("x"), Num(1)>>)}])}

\* [string] with a parser hook annotation: not a TypeAlias.
AnnotatedStringPair ==
  [_tag |-> "Tuple", elements |-> <<req(stringKeyword)>>, rest |-> << >>,
   isReadonly |-> TRUE, hook |-> "anything"]

\* TypeAlias nodes without and with a hook, at the top and under a tuple, and
\* a node of another kind with the annotation.
Aliases ==
  { typeAlias(<<stringKeyword>>, numberKeyword, "none"),
    typeAlias(<<stringKeyword>>, numberKeyword, "orUndefined"),
    typeAlias(<<NumberFromString>>, booleanKeyword, "orUndefined"),
    typeAlias(<<stringKeyword>>, NumberFromString, "none"),
    typeAlias(<< >>, StringPair, "anything"),
    typeAlias(<<typeAlias(<<booleanKeyword>>, stringKeyword, "none")>>, numberKeyword,
              "orUndefined"),
    tuple(<<req(typeAlias(<<stringKeyword>>, numberKeyword, "orUndefined")),
            opt(typeAlias(<<stringKeyword>>, numberKeyword, "none"))>>, << >>, TRUE),
    AnnotatedStringPair }

AliasInputs ==
  {Str("x"), Str("1"), Num(1), Bool(TRUE), Undefined, Null,
   Arr(<< >>), Arr(<<Str("x")>>), Arr(<<Undefined>>), Arr(<<Num(1)>>), Arr(<<Str("x"), Num(1)>>),
   Arr(<<Undefined, Num(1)>>), Arr(<<Str("x"), Str("x")>>)}

\* The (schema, input) pairs an operation is run on.
Cases ==
  (FlatTuples \X (FlatArrays \cup OtherInputs))
    \cup (LongTailTuples \X FlatArrays)
    \cup (NestedTuples \X (NestedArrays \cup OtherInputs))
    \cup (Records \X (RecordObjects \cup OtherInputs))
    \cup (Unions \X (UnionObjects \cup OtherInputs))
    \cup ({NestedUnexpectedUnion} \X RecordObjects)
    \cup (Trees \X (TreeValues(MaxDepth) \cup OtherInputs))
    \cup (Transforms \X TransformInputs)
    \cup (Aliases \X AliasInputs)
    \cup (OptionalTuples \X UndefinedArrays)
    \cup (OptionalRecords \X UndefinedObjects)
    \cup (BigIntSchemas \X BigIntInputs)
    \cup (IndexRecords \X IndexObjects)

\* The array or object v as the object at an address: the parsers read its
\* elements and properties, and an array or object a parser allocates has no
\* address of the input.
Referenced(v) ==
  IF isArray(v) THEN [t |-> "array", a |-> v.a, ref |-> 1]
  ELSE [t |-> "object", o |-> v.o, ref |-> 1]

\* The (schema, input) pairs whose input is an object at an address.
RefCases ==
  (FlatTuples \X {Referenced(v) : v \in FlatArrays})
    \cup (NestedTuples \X {Referenced(v) : v \in NestedArrays})
    \cup (Records \X {Referenced(v) : v \in RecordObjects})

\* The (schema, input) pairs of the step-by-step runs.
StepCases ==
  (Trees \X (TreeValues(MaxDepth) \cup OtherInputs))
    \cup ({lazy("Loop")} \X {Str("x"), Num(1)})
    \cup ((Unions \cup Records) \X OtherInputs)
    \cup (Transforms \X TransformInputs)
    \cup (FlatTuples \X FlatArrays)
    \cup (NestedTuples \X NestedArrays)
    \cup (Unions \X UnionObjects)
    \cup (Aliases \X AliasInputs)
    \cup (IndexRecords \X IndexObjects)

ParseOptions == [isUnexpectedAllowed : BOOLEAN, allErrors : BOOLEAN]

-----------------------------------------------------------------------------
(* The operations as a state machine: a schema, an input and options are      *)
(* chosen, then one public operation is applied to them.                    *)

Init ==
  /\ pc = "init"
  /\ \E c \in Cases : curSchema = c[1] /\ curInput = c[2]
  /\ curOptions \in ParseOptions
  /\ result = None
  /\ back = None
  /\ curAs = "none"
  /\ heap = << >>
  /\ root = 0
  /\ stack = << >>
  /\ thunkCalls = 0

\* decode(schema)(input, options)
Decode ==
  /\ pc = "init"
  /\ result' = decode(curSchema, curInput, curOptions)
  /\ pc' = "decoded"
  /\ curAs' = "decoder"
  /\ UNCHANGED <<curSchema, curInput, curOptions, back, run>>

\* is(schema)(input, options)
Is ==
  /\ pc = "init"
  /\ result' = [_tag |-> "Boolean", value |-> is(curSchema, curInput, curOptions)]
  /\ pc' = "guarded"
  /\ curAs' = "guard"
  /\ UNCHANGED <<curSchema, curInput, curOptions, back, run>>

\* encode(schema)(a, options)
Encode ==
  /\ pc = "init"
  /\ result' = encode(curSchema, curInput, curOptions)
  /\ pc' = "encoded"
  /\ curAs' = "encoder"
  /\ UNCHANGED <<curSchema, curInput, curOptions, back, run>>

\* decode(schema)(raw, options) on the raw value an encode returned
DecodeEncoded ==
  /\ pc = "encoded"
  /\ ~isFailure(result)
  /\ back' = decode(curSchema, result.right, curOptions)
  /\ pc' = "roundtrip"
  /\ UNCHANGED <<curSchema, curInput, curOptions, result, curAs, run>>

\* decodeOrThrow(schema)(input, options)
DecodeOrThrow ==
  /\ pc = "init"
  /\ result' = decodeOrThrow(curSchema, curInput, curOptions)
  /\ pc' = "decodedOrThrown"
  /\ curAs' = "decoder"
  /\ UNCHANGED <<curSchema, curInput, curOptions, back, run>>

\* asserts(schema)(input, options)
Asserts ==
  /\ pc = "init"
  /\ result' = asserts(curSchema, curInput, curOptions)
  /\ pc' = "asserted"
  /\ curAs' = "guard"
  /\ UNCHANGED <<curSchema, curInput, curOptions, back, run>>

\* encodeOrThrow(schema)(a, options)
EncodeOrThrow ==
  /\ pc = "init"
  /\ result' = encodeOrThrow(curSchema, curInput, curOptions)
  /\ pc' = "encodedOrThrown"
  /\ curAs' = "encoder"
  /\ UNCHANGED <<curSchema, curInput, curOptions, back, run>>

Next ==
  \/ Decode \/ Is \/ Encode \/ DecodeEncoded
  \/ DecodeOrThrow \/ Asserts \/ EncodeOrThrow

Spec == Init /\ [][Next]_vars

\* The same operations on inputs that are objects at an address.
InitRefs ==
  /\ pc = "init"
  /\ \E c \in RefCases : curSchema = c[1] /\ curInput = c[2]
  /\ curOptions \in ParseOptions
  /\ result = None
  /\ back = None
  /\ curAs = "none"
  /\ heap = << >>
  /\ root = 0
  /\ stack = << >>
  /\ thunkCalls = 0

SpecRefs == InitRefs /\ [][Next]_vars

-----------------------------------------------------------------------------
(* The same operations step by step.  parserFor(schema, as) runs go on the   *)
(* schema: a call of go(ast) compiles the parsers of the children of ast,   *)
(* then creates the parser of ast; for a Lazy node it creates the parser    *)
(* and its memo (box) without calling ast.f().  The parser is then run on   *)
(* the input: the stack holds the calls of go and of parsers in progress,   *)
(* the heap the parsers created.                                            *)

Directions == {"decoder", "guard", "encoder"}

\* The depth of the call stack the host allows: enough for the productive
\* schemas on the inputs of the model.
StackLimit == 3 * (MaxDepth + 1) + 1

\* go(Lazy) calls ast.f() at once.
GoKidsEager(ast) == Kids(ast)

\* The calls of go that go(ast) makes before it returns.
GoKids(ast) == IF ast._tag = "Lazy" THEN << >> ELSE Kids(ast)

\* A call of go(ast); box is the Lazy parser whose memo receives the result.
GoFrame(ast, as, box) ==
  [kind |-> "go", ast |-> Target(ast, as), kids |-> << >>, box |-> box]

\* A call of the parser p on u.
ParseFrame(p, u) == [kind |-> "parse", p |-> p, u |-> u, st |-> Locals(heap[p].ast)]

Top == stack[Len(stack)]

Pop == SubSeq(stack, 1, Len(stack) - 1)

TopAst == heap[Top.p].ast

TopPending == Pending(TopAst, curAs, Top.u, Top.st)

\* The parser the top parser calls next: get() for a Lazy parser (0 while the
\* memo is empty), else the parser compiled for the child.
TopCallee ==
  IF TopAst._tag = "Lazy" THEN heap[Top.p].box ELSE heap[Top.p].kids[TopPending.kid]

InitSteps ==
  /\ pc = "init"
  /\ \E c \in StepCases : curSchema = c[1] /\ curInput = c[2]
  /\ curOptions \in ParseOptions
  /\ result = None
  /\ back = None
  /\ curAs = "none"
  /\ heap = << >>
  /\ root = 0
  /\ stack = << >>
  /\ thunkCalls = 0

\* parserFor(schema, as): the call go(schema.ast)
GoStart ==
  /\ pc = "init"
  /\ \E as \in Directions :
       /\ curAs' = as
       /\ stack' = <<GoFrame(curSchema, as, 0)>>
  /\ pc' = "compiling"
  /\ UNCHANGED <<curSchema, curInput, curOptions, result, back, heap, root, thunkCalls>>

\* go(ast) calls go on the next child of ast
GoCall ==
  /\ stack # << >>
  /\ Top.kind = "go"
  /\ Len(Top.kids) < Len(GoKids(Top.ast))
  /\ Len(stack) < StackLimit
  /\ stack' = Append(stack, GoFrame(GoKids(Top.ast)[Len(Top.kids) + 1], curAs, 0))
  /\ UNCHANGED <<pc, curSchema, curInput, curOptions, result, back, curAs, heap, root,
                 thunkCalls>>

\* go(ast) creates the parser of ast and returns it: to the go that called
\* it, to the memo of the Lazy parser that called f, or to parserFor.
GoReturn ==
  /\ stack # << >>
  /\ Top.kind = "go"
  /\ Len(Top.kids) = Len(GoKids(Top.ast))
  /\ LET id == Len(heap) + 1
         created == Append(heap, [ast |-> Top.ast, kids |-> Top.kids, box |-> 0])
         rest == Pop IN
     IF Top.box # 0
     THEN /\ heap' = [created EXCEPT ![Top.box].box = id]
          /\ stack' = rest
          /\ UNCHANGED <<pc, root>>
     ELSE IF rest = << >>
          THEN /\ heap' = created
               /\ stack' = rest
               /\ root' = id
               /\ pc' = "compiled"
          ELSE /\ heap' = created
               /\ stack' = [rest EXCEPT ![Len(rest)].kids = Append(@, id)]
               /\ UNCHANGED <<pc, root>>
  /\ UNCHANGED <<curSchema, curInput, curOptions, result, back, curAs, thunkCalls>>

\* parser.parse(input, options) of decode / is / encode
ParseStart ==
  /\ pc = "compiled"
  /\ stack' = <<ParseFrame(root, curInput)>>
  /\ pc' = "parsing"
  /\ UNCHANGED <<curSchema, curInput, curOptions, result, back, curAs, heap, root,
                 thunkCalls>>

\* get() of a Lazy parser whose memo is empty: f() = go(ast.f())
LazyGet ==
  /\ stack # << >>
  /\ Top.kind = "parse"
  /\ TopAst._tag = "Lazy"
  /\ TopPending.kind = "call"
  /\ heap[Top.p].box = 0
  /\ Len(stack) < StackLimit
  /\ thunkCalls' = thunkCalls + 1
  /\ stack' = Append(stack, GoFrame(LazyF(TopAst.identifier), curAs, Top.p))
  /\ UNCHANGED <<pc, curSchema, curInput, curOptions, result, back, curAs, heap, root>>

\* a parser calls the parser of a child
ParseCall ==
  /\ stack # << >>
  /\ Top.kind = "parse"
  /\ TopPending.kind = "call"
  /\ TopCallee # 0
  /\ Len(stack) < StackLimit
  /\ stack' = Append(stack, ParseFrame(TopCallee, TopPending.u))
  /\ UNCHANGED <<pc, curSchema, curInput, curOptions, result, back, curAs, heap, root,
                 thunkCalls>>

\* a parser runs an iteration that calls no parser
ParseLocal ==
  /\ stack # << >>
  /\ Top.kind = "parse"
  /\ TopPending.kind = "local"
  /\ stack' = [stack EXCEPT ![Len(stack)].st =
                 Resume(TopAst, curAs, Top.u, curOptions, Top.st, None)]
  /\ UNCHANGED <<pc, curSchema, curInput, curOptions, result, back, curAs, heap, root,
                 thunkCalls>>

\* a parser returns: to the iteration of the parser that called it, or to
\* decode / is / encode
ParseReturn ==
  /\ stack # << >>
  /\ Top.kind = "parse"
  /\ TopPending.kind = "return"
  /\ LET rest == Pop
         caller == rest[Len(rest)] IN
     IF rest = << >>
     THEN /\ result' = TopPending.t
          /\ stack' = rest
          /\ pc' = "done"
     ELSE /\ stack' = [rest EXCEPT ![Len(rest)].st =
                         Resume(heap[caller.p].ast, curAs, caller.u, curOptions,
                                caller.st, TopPending.t)]
          /\ UNCHANGED <<pc, result>>
  /\ UNCHANGED <<curSchema, curInput, curOptions, back, curAs, heap, root, thunkCalls>>

\* a call with the call stack exhausted: a RangeError is thrown
StackOverflow ==
  /\ stack # << >>
  /\ Len(stack) = StackLimit
  /\ \/ Top.kind = "go" /\ Len(Top.kids) < Len(GoKids(Top.ast))
     \/ Top.kind = "parse" /\ TopPending.kind = "call"
  /\ pc' = "thrown"
  /\ stack' = << >>
  /\ UNCHANGED <<curSchema, curInput, curOptions, result, back, curAs, heap, root,
                 thunkCalls>>

NextSteps ==
  \/ GoStart \/ GoCall \/ GoReturn
  \/ ParseStart \/ LazyGet \/ ParseCall \/ ParseLocal \/ ParseReturn
  \/ StackOverflow

SpecSteps == InitSteps /\ [][NextSteps]_vars

\* A call in progress goes on: the interpreter is single threaded and
\* synchronous.
FairSpecSteps == SpecSteps /\ WF_vars(NextSteps)

-----------------------------------------------------------------------------
(* Vocabulary of the properties *)

\* Does the AST contain a Transform node?  (The bodies of the model's Lazy
\* nodes contain none.)
RECURSIVE hasTransform(_)
hasTransform(ast) ==
  CASE ast._tag = "Transform" -> TRUE
    [] ast._tag = "TypeAlias" ->
         IF getHook(ast) = << >> THEN hasTransform(ast.type)
         ELSE \E n \in 1..Len(ast.typeParameters) : hasTransform(ast.typeParameters[n])
    [] ast._tag = "Refinement" -> hasTransform(ast.from)
    [] ast._tag = "Tuple" ->
         \/ \E n \in 1..Len(ast.elements) : hasTransform(ast.elements[n].type)
         \/ \E n \in 1..Len(ast.rest) : hasTransform(ast.rest[n])
    [] ast._tag = "TypeLiteral" ->
         \/ \E n \in 1..Len(ast.propertySignatures) :
              hasTransform(ast.propertySignatures[n].type)
         \/ \E n \in 1..Len(ast.indexSignatures) :
              hasTransform(ast.indexSignatures[n].parameter)
                \/ hasTransform(ast.indexSignatures[n].type)
    [] ast._tag = "Union" -> \E n \in 1..Len(ast.types) : hasTransform(ast.types[n])
    [] OTHER -> FALSE

-----------------------------------------------------------------------------
(* C1 *)

\* C1 as stated: for every schema, Transform nodes included, is(S)(x, o) is
\* true exactly when decode(S)(x, o) is not a Failure.
C1_GuardIffDecode ==
  pc = "guarded" =>
    (result.value <=> ~isFailure(decode(curSchema, curInput, curOptions)))

\* C1 amended: for every schema that contains no Transform node, is(S)(x, o)
\* is true exactly when decode(S)(x, o) is a Success or a Warning.
C1_GuardIffDecodeWithoutTransform ==
  (pc = "guarded" /\ ~hasTransform(curSchema)) =>
    (result.value <=> ~isFailure(decode(curSchema, curInput, curOptions)))

\* A guard that answered true on an input whose decoding is a Warning.
C1_Witness ==
  /\ pc = "guarded"
  /\ ~hasTransform(curSchema)
  /\ result.value
  /\ hasWarnings(decode(curSchema, curInput, curOptions))

-----------------------------------------------------------------------------
(* C2 *)

\* C2 as stated: for every Transform node and every value a accepted by its
\* `to`, encode succeeds on a and decoding what it returned is Success(a).
C2_RoundTrip ==
  (curSchema._tag = "Transform" /\ is(curSchema.to, curInput, curOptions)) =>
    /\ pc = "encoded" => ~isFailure(result)
    /\ pc = "roundtrip" => back = PEsuccess(curInput)

\* The legs of the Transform invert each other at a, and `from` returns the
\* raw value unchanged in both directions.
C2_InverseAt(ast, a, o) ==
  LET raw == TransformEncode(ast, a, o) IN
  /\ isSuccess(raw)
  /\ go(ast.from, "encoder", raw.right, o) = raw
  /\ go(ast.from, "decoder", raw.right, o) = raw
  /\ TransformDecode(ast, raw.right, o) = PEsuccess(a)

\* C2 amended: for every Transform node and every value a at which encode
\* succeeds, `from` accepts encode's output unchanged and decode maps it back
\* to Success(a): encode(T) on a is a Success, and decoding it is Success(a).
C2_RoundTripOfInverseLegs ==
  (curSchema._tag = "Transform" /\ C2_InverseAt(curSchema, curInput, curOptions)) =>
    /\ pc = "encoded" => result = TransformEncode(curSchema, curInput, curOptions)
    /\ pc = "roundtrip" => back = PEsuccess(curInput)

\* A number was encoded to its numeral and decoded back.
C2_Witness ==
  /\ pc = "roundtrip"
  /\ curSchema = NumberFromString
  /\ C2_InverseAt(curSchema, curInput, curOptions)
  /\ result = PEsuccess(Str("2"))
  /\ back = PEsuccess(Num(2))

-----------------------------------------------------------------------------
(* The walk of a container's positions that the properties refer to: one      *)
(* entry per position that yields a diagnostic, in traversal order, with the *)
(* diagnostic the position yields and whether it is fatal.                   *)

Diagnostic(entry, fatal) == [entry |-> entry, fatal |-> fatal]

\* The diagnostics of a child parse result t, wrapped by Wrap.
ChildDiagnostic(t, Wrap(_)) ==
  IF isSuccess(t) THEN << >> ELSE <<Diagnostic(Wrap(t.left), isFailure(t))>>

UnexpectedDiagnostic(e, o) == <<Diagnostic(e, ~o.isUnexpectedAllowed)>>

\* Position i of a tuple, parsed with `type`; an absent position is skipped
\* when optional and Missing otherwise.
IndexPosition(type, isOptional, u, i, o) ==
  LET Wrap(errs) == PEindex(i, errs) IN
  IF i >= Len(u.a)
  THEN IF isOptional THEN << >> ELSE <<Diagnostic(PEindex(i, <<PEmissing>>), TRUE)>>
  ELSE ChildDiagnostic(go(type, "decoder", u.a[i + 1], o), Wrap)

Max(a, b) == IF a > b THEN a ELSE b

\* The positions of a tuple: the fixed elements, then either the rest items up
\* to the last m positions and the m post-rest positions, or the unexpected
\* indexes.
TupleWalk(ast, u, o) ==
  LET n == Len(ast.elements)
      len == Len(u.a)
      fixed == [p \in 1..n |->
                  IndexPosition(ast.elements[p].type, ast.elements[p].isOptional, u, p - 1, o)]
  IN IF ast.rest # << >>
     THEN LET m == Len(ast.rest) - 1
              start == Max(n, len - m)
              items == [p \in 1..(start - n) |->
                          IndexPosition(Head(ast.rest), FALSE, u, n + p - 1, o)]
              post == [j \in 1..m |->
                         IndexPosition(ast.rest[j + 1], FALSE, u, start + j - 1, o)]
          IN Flatten(fixed) \o Flatten(items) \o Flatten(post)
     ELSE Flatten(fixed)
            \o Flatten([p \in 1..Max(0, len - n) |->
                          UnexpectedDiagnostic(
                            PEindex(n + p - 1, <<PEunexpected(u.a[n + p])>>), o)])

\* The property `name` of a record, parsed with `type`.
KeyPosition(type, isOptional, u, name, o) ==
  LET Wrap(errs) == PEkey(name, errs) IN
  IF ~hasOwnProperty(Entries(u), name)
  THEN IF isOptional THEN << >> ELSE <<Diagnostic(PEkey(name, <<PEmissing>>), TRUE)>>
  ELSE ChildDiagnostic(go(type, "decoder", Get(Entries(u), name), o), Wrap)

PropertyNames(ast) == {ast.propertySignatures[n].name : n \in 1..Len(ast.propertySignatures)}

\* The positions of a record: the property signatures, then either the key
\* and the value of every key of every index signature, or the unexpected
\* keys.
TypeLiteralWalk(ast, u, o) ==
  LET declared == [p \in 1..Len(ast.propertySignatures) |->
                     LET ps == ast.propertySignatures[p] IN
                     KeyPosition(ps.type, ps.isOptional, u, ps.name, o)]
      keys == ownKeys(u)
  IN IF Len(ast.indexSignatures) > 0
     THEN Flatten(declared)
            \o Flatten([p \in 1..Len(ast.indexSignatures) |->
                 LET sig == ast.indexSignatures[p]
                     ks == getKeysForIndexSignature(u, sig.parameter) IN
                 Flatten([q \in 1..Len(ks) |->
                   LET Wrap(errs) == PEkey(ks[q], errs) IN
                   ChildDiagnostic(go(sig.parameter, "decoder", Str(ks[q]), o), Wrap)
                     \o KeyPosition(sig.type, FALSE, u, ks[q], o)])])
     ELSE Flatten(declared)
            \o Flatten([q \in 1..Len(keys) |->
                 IF keys[q] \in PropertyNames(ast) THEN << >>
                 ELSE UnexpectedDiagnostic(
                        PEkey(keys[q], <<PEunexpected(Get(Entries(u), keys[q]))>>), o)])

\* The schema is a tuple or a (non-empty) record and the input is of its kind,
\* so that the positions are walked.
IsWalked(ast, u) ==
  \/ ast._tag = "Tuple" /\ isArray(u)
  \/ /\ ast._tag = "TypeLiteral"
     /\ Len(ast.propertySignatures) + Len(ast.indexSignatures) > 0
     /\ isUnknownObject(u)

Walk(ast, u, o) ==
  IF ast._tag = "Tuple" THEN TupleWalk(ast, u, o) ELSE TypeLiteralWalk(ast, u, o)

\* The position of the first fatal diagnostic of a walk, 0 if there is none.
FirstFatal(w) ==
  IF \E n \in 1..Len(w) : w[n].fatal
  THEN CHOOSE n \in 1..Len(w) : w[n].fatal /\ \A k \in 1..(n - 1) : ~w[k].fatal
  ELSE 0

EntriesOf(w) == [n \in 1..Len(w) |-> w[n].entry]

-----------------------------------------------------------------------------
(* C3 *)

\* C3: with allErrors = false, when a tuple or record parse fails, the
\* Failure ends with the first fatal error of the walk and every warning of an
\* earlier position is in its error list before that error.
C3_WarningsBeforeFatal ==
  (pc = "decoded" /\ ~curOptions.allErrors /\ IsWalked(curSchema, curInput)
     /\ isFailure(result)) =>
    LET w == Walk(curSchema, curInput, curOptions)
        f == FirstFatal(w)
        errs == result.left IN
    /\ f > 0
    /\ errs[Len(errs)] = w[f].entry
    /\ \A n \in 1..(f - 1) : \E k \in 1..(Len(errs) - 1) : errs[k] = w[n].entry

-----------------------------------------------------------------------------
(* C4 *)

\* C4: with allErrors = true, a tuple or record parse reports the error of
\* every failing position of the walk: none is skipped because an earlier
\* position failed.
C4_AllErrorsComplete ==
  (pc = "decoded" /\ curOptions.allErrors /\ IsWalked(curSchema, curInput)) =>
    LET w == Walk(curSchema, curInput, curOptions) IN
    \A n \in 1..Len(w) :
      w[n].fatal => (isFailure(result) /\ w[n].entry \in Range(result.left))

-----------------------------------------------------------------------------
(* C5 *)

\* a is a prefix of b, position by position in traversal order: an Index, Key
\* or Member entry of a may itself carry a prefix of the child errors that the
\* entry of b at the same position carries.
RECURSIVE IsPrefix(_, _)
IsPrefix(a, b) ==
  /\ Len(a) <= Len(b)
  /\ \A n \in 1..Len(a) :
       \/ a[n] = b[n]
       \/ /\ a[n]._tag = b[n]._tag
          /\ \/ a[n]._tag = "Index" /\ a[n].index = b[n].index
             \/ a[n]._tag = "Key" /\ a[n].key = b[n].key
             \/ a[n]._tag = "Member"
          /\ IsPrefix(a[n].errors, b[n].errors)

\* C5: the error list of a parse with allErrors = false is a prefix of the
\* error list of the parse of the same input with allErrors = true.
C5_PrefixOfAllErrors ==
  (pc = "decoded" /\ ~curOptions.allErrors /\ ~isSuccess(result)) =>
    LET all == decode(curSchema, curInput, [curOptions EXCEPT !.allErrors = TRUE]) IN
    ~isSuccess(all) /\ IsPrefix(result.left, all.left)

-----------------------------------------------------------------------------
(* C6 *)

\* The Unexpected entries of the extra indexes of a tuple without rest, or of
\* the extra own keys of a record without index signatures.
ExtraEntries(ast, u) ==
  IF ast._tag = "Tuple"
  THEN LET n == Len(ast.elements) IN
       [p \in 1..Max(0, Len(u.a) - n) |-> PEindex(n + p - 1, <<PEunexpected(u.a[n + p])>>)]
  ELSE LET keys == ownKeys(u) IN
       Flatten([q \in 1..Len(keys) |->
         IF keys[q] \in PropertyNames(ast) THEN << >>
         ELSE <<PEkey(keys[q], <<PEunexpected(Get(Entries(u), keys[q]))>>)>>])

\* The walk of the declared positions alone.
DeclaredWalk(ast, u, o) ==
  LET w == Walk(ast, u, o) IN SubSeq(w, 1, Len(w) - Len(ExtraEntries(ast, u)))

\* The value built from the declared positions that are present.
DeclaredValue(ast, u, o) ==
  IF ast._tag = "Tuple"
  THEN Arr(Flatten([p \in 1..Len(ast.elements) |->
         IF p <= Len(u.a)
         THEN <<go(ast.elements[p].type, "decoder", u.a[p], o).right>>
         ELSE << >>]))
  ELSE Obj(Flatten([p \in 1..Len(ast.propertySignatures) |->
         LET ps == ast.propertySignatures[p] IN
         IF hasOwnProperty(Entries(u), ps.name)
         THEN <<[k |-> ps.name,
                 v |-> go(ps.type, "decoder", Get(Entries(u), ps.name), o).right]>>
         ELSE << >>]))

\* Extras are either warnings after the declared positions' own warnings, with
\* the value of the declared positions, or fatal.
C6_ExtrasAreWarningsOrFatal ==
  LET extras == ExtraEntries(curSchema, curInput)
      declared == DeclaredWalk(curSchema, curInput, curOptions) IN
  (extras # << >> /\ FirstFatal(declared) = 0) =>
    IF curOptions.isUnexpectedAllowed
    THEN result = PEwarnings(EntriesOf(declared) \o extras,
                             DeclaredValue(curSchema, curInput, curOptions))
    ELSE result = PEfailures(EntriesOf(declared)
                               \o (IF curOptions.allErrors THEN extras ELSE <<extras[1]>>))

\* C6 as stated: for every tuple without rest and every record without index
\* signatures, extra indexes / own keys are warnings with isUnexpectedAllowed
\* (the result is the Warning carrying one Unexpected entry per extra and the
\* value of the declared positions) and fatal without it.
C6_UnexpectedAllowed ==
  (/\ pc = "decoded"
   /\ \/ curSchema._tag = "Tuple" /\ curSchema.rest = << >> /\ isArray(curInput)
      \/ /\ curSchema._tag = "TypeLiteral"
         /\ Len(curSchema.indexSignatures) = 0
         /\ isUnknownObject(curInput))
    => C6_ExtrasAreWarningsOrFatal

\* C6 amended: the same, for every tuple without rest and every record with
\* at least one property signature and no index signatures.
C6_UnexpectedAllowedDeclared ==
  (/\ pc = "decoded"
   /\ \/ curSchema._tag = "Tuple" /\ curSchema.rest = << >> /\ isArray(curInput)
      \/ /\ curSchema._tag = "TypeLiteral"
         /\ Len(curSchema.indexSignatures) = 0
         /\ Len(curSchema.propertySignatures) > 0
         /\ isUnknownObject(curInput))
    => C6_ExtrasAreWarningsOrFatal

\* A record parse that tolerated an extra key, after a warning of a declared
\* key.
C6_Witness ==
  /\ pc = "decoded"
  /\ curSchema._tag = "TypeLiteral"
  /\ Len(curSchema.indexSignatures) = 0
  /\ Len(curSchema.propertySignatures) > 0
  /\ isUnknownObject(curInput)
  /\ curOptions.isUnexpectedAllowed
  /\ ExtraEntries(curSchema, curInput) # << >>
  /\ DeclaredWalk(curSchema, curInput, curOptions) # << >>
  /\ hasWarnings(result)

-----------------------------------------------------------------------------
(* C7 *)

\* {kind: "b", y: 3, extra: 1}
KindBWithExtra ==
  Obj(<<[k |-> "kind", v |-> Str("b")], [k |-> "y", v |-> Num(3)],
        [k |-> "extra", v |-> Num(1)]>>)

\* Warning([Key("extra", [Unexpected(1)])], {kind: "b", y: 3})
KindBWarning ==
  PEwarnings(<<PEkey("extra", <<PEunexpected(Num(1))>>)>>,
             Obj(<<[k |-> "kind", v |-> Str("b")], [k |-> "y", v |-> Num(3)]>>))

-----------------------------------------------------------------------------
(* C8 *)

\* A string, then numbers, then a boolean.
C8_WellShaped(q) ==
  /\ Len(q) >= 2
  /\ isString(q[1])
  /\ isBoolean(q[Len(q)])
  /\ \A n \in 2..(Len(q) - 1) : isNumber(q[n])

\* C8: [string, ...number[], boolean] decodes every array made of a string,
\* numbers and a final boolean to Success of an equal array (the rest may be
\* empty), and ["x", 1] to Failure([Index(1, [Type(boolean, 1)])]).
C8_TupleWithRest ==
  (pc = "decoded" /\ curSchema = StringNumbersBoolean /\ isArray(curInput)) =>
    /\ C8_WellShaped(curInput.a) => result = PEsuccess(curInput)
    /\ curInput = Arr(<<Str("x"), Num(1)>>) =>
         result = PEfailure(PEindex(1, <<PEtype(booleanKeyword, Num(1))>>))

\* An array with a non-empty rest was decoded by [string, ...number[], boolean].
C8_Witness ==
  /\ pc = "decoded"
  /\ curSchema = StringNumbersBoolean
  /\ isArray(curInput)
  /\ C8_WellShaped(curInput.a)
  /\ Len(curInput.a) > 2
  /\ result = PEsuccess(curInput)

-----------------------------------------------------------------------------
(* C10 *)

\* {value: 1, children: [{value: "x", children: []}]}
TreeWithBadChild ==
  Obj(<<[k |-> "value", v |-> Num(1)],
        [k |-> "children",
         v |-> Arr(<<Obj(<<[k |-> "value", v |-> Str("x")],
                           [k |-> "children", v |-> Arr(<< >>)]>>)>>)]>>)

\* The AST whose parser runs: a Lazy node runs its body's.
Body(ast) == IF ast._tag = "Lazy" THEN LazyF(ast.identifier) ELSE ast

\* errs is the error list of a child parser of the container on the value v.
IsChildErrors(types, v, o, errs) ==
  \E type \in types :
    LET t == go(type, "decoder", v, o) IN ~isSuccess(t) /\ errs = t.left

ChildTypes(ast) ==
  IF ast._tag = "Tuple"
  THEN {ast.elements[n].type : n \in 1..Len(ast.elements)} \cup Range(ast.rest)
  ELSE {ast.propertySignatures[n].type : n \in 1..Len(ast.propertySignatures)}
         \cup {ast.indexSignatures[n].type : n \in 1..Len(ast.indexSignatures)}

\* C10: every error a tuple returns is Index(i, errs) and every error a record
\* returns is Key(k, errs), errs being Missing, Unexpected or the errors of a
\* child at that position; a union with branches that all fail returns one
\* Member(errs) per branch; and the tree with a wrong value in its child
\* decodes to Failure([Key("children", [Index(0, [Key("value",
\* [Type(number, "x")])])])]).
C10_ErrorsAreWrapped ==
  (pc = "decoded" /\ ~isSuccess(result)) =>
    LET ast == Body(curSchema)
        u == curInput
        o == curOptions IN
    /\ (ast._tag = "Tuple" /\ isArray(u)) =>
         \A e \in Range(result.left) :
           /\ e._tag = "Index"
           /\ \/ e.errors = <<PEmissing>> /\ e.index >= Len(u.a)
              \/ /\ e.index < Len(u.a)
                 /\ \/ e.errors = <<PEunexpected(u.a[e.index + 1])>>
                    \/ IsChildErrors(ChildTypes(ast), u.a[e.index + 1], o, e.errors)
    /\ (ast._tag = "TypeLiteral" /\ IsWalked(ast, u)) =>
         \A e \in Range(result.left) :
           /\ e._tag = "Key"
           /\ \/ e.errors = <<PEmissing>> /\ ~hasOwnProperty(Entries(u), e.key)
              \/ /\ hasOwnProperty(Entries(u), e.key)
                 /\ \/ e.errors = <<PEunexpected(Get(Entries(u), e.key))>>
                    \/ IsChildErrors(ChildTypes(ast), Get(Entries(u), e.key), o, e.errors)
                    \/ IsChildErrors({ast.indexSignatures[n].parameter :
                                        n \in 1..Len(ast.indexSignatures)},
                                     Str(e.key), o, e.errors)
    /\ (ast._tag = "Union" /\ ast.types # << >> /\ isFailure(result)) =>
         result.left = [n \in 1..Len(ast.types) |->
                          PEmember(go(ast.types[n], "decoder", u, o).left)]
    /\ (curSchema \in Trees /\ u = TreeWithBadChild) =>
         result = PEfailure(PEkey("children",
                    <<PEindex(0, <<PEkey("value", <<PEtype(numberKeyword, Str("x"))>>)>>)>>))

\* The tree with a wrong value in its child was decoded.
C10_Witness ==
  /\ pc = "decoded"
  /\ curSchema = lazy("Tree")
  /\ curInput = TreeWithBadChild
  /\ isFailure(result)

-----------------------------------------------------------------------------
(* C9: recursive schemas *)

\* The nesting depth of a value: 0 for a scalar, one more than the deepest
\* element or property value for an array or an object.
RECURSIVE NestingDepth(_)
NestingDepth(u) ==
  IF isArray(u) \/ u.t = "object"
  THEN LET es == Entries(u)
           RECURSIVE Deepest(_)
           Deepest(n) == IF n = 0 THEN 0 ELSE Max(NestingDepth(es[n].v), Deepest(n - 1)) IN
       1 + Deepest(Len(es))
  ELSE 0

\* A parser of ast can call the parser of a Lazy node of `seen` on its own
\* input: through union members, `from` legs and Lazy nodes only.
RECURSIVE Loops(_, _)
Loops(ast, seen) ==
  CASE ast._tag = "Lazy" ->
         ast.identifier \in seen
           \/ Loops(LazyF(ast.identifier), seen \cup {ast.identifier})
    [] ast._tag \in {"Union", "Refinement", "Transform"} ->
         \E n \in 1..Len(Kids(ast)) : Loops(Kids(ast)[n], seen)
    [] OTHER -> FALSE

\* Every recursive reference of the schema is reached through a tuple element
\* or a property or index signature.
RECURSIVE Productive(_, _)
Productive(ast, visited) ==
  IF ast._tag = "Lazy"
  THEN /\ ~Loops(ast, {})
       /\ \/ ast.identifier \in visited
          \/ Productive(LazyF(ast.identifier), visited \cup {ast.identifier})
  ELSE \A n \in 1..Len(Kids(ast)) : Productive(Kids(ast)[n], visited)

\* The calls of Lazy parsers in progress, outermost first.
LazyCalls ==
  SelectSeq(stack, LAMBDA f : f.kind = "parse" /\ heap[f.p].ast._tag = "Lazy")

\* Each call of a recursive parser in progress is on a value less deeply nested
\* than the value of the call around it, so there are at most
\* NestingDepth(input) + 1 of them.
RecursionBounded ==
  /\ Len(LazyCalls) <= NestingDepth(curInput) + 1
  /\ \A m, n \in 1..Len(LazyCalls) :
       m < n /\ heap[LazyCalls[m].p].ast = heap[LazyCalls[n].p].ast
         => NestingDepth(LazyCalls[n].u) < NestingDepth(LazyCalls[m].u)

\* The step-by-step run ends with what the parser of the schema returns.
RunsToResult ==
  pc = "done" => result = parserFor(curSchema, curAs, curInput, curOptions)

\* C9 as stated: for a self-referential schema built with Lazy, compiling the
\* parser terminates, every parse of a finite input terminates with a
\* ParseResult, and the recursion depth is bounded by the nesting depth of the
\* input.
C9_RecursiveTerminates ==
  /\ [](pc # "thrown" /\ RecursionBounded)
  /\ (pc = "init") ~> (pc = "compiled")
  /\ (pc = "compiled") ~> (pc = "done")

\* C9, for the schemas whose every recursive reference lies under a tuple
\* element or a property or index signature (such as Tree): compiling the
\* parser terminates without calling a thunk, every parse terminates with the
\* ParseResult of the parser, no call exhausts the stack, and the calls of
\* recursive parsers in progress are on less and less deeply nested values.
C9_ProductiveTerminates ==
  /\ [](Productive(curSchema, {}) =>
          /\ pc # "thrown"
          /\ RecursionBounded
          /\ RunsToResult
          /\ (pc \in {"init", "compiling", "compiled"} => thunkCalls = 0))
  /\ (pc = "init" /\ Productive(curSchema, {})) ~> (pc = "compiled")
  /\ (pc = "compiled" /\ Productive(curSchema, {})) ~> (pc = "done")

\* A tree nested MaxDepth deep has been parsed by the recursive parser: one
\* thunk call for each level.
C9_Witness ==
  /\ pc = "done"
  /\ curSchema = lazy("Tree")
  /\ curInput \in TreeValues(MaxDepth) \ TreeValues(MaxDepth - 1)
  /\ thunkCalls = MaxDepth + 1
  /\ isSuccess(result)

-----------------------------------------------------------------------------
(* C11: the input and the output of the tuple and record parsers *)

\* The value a parse returned is an array or object the parser allocated: it
\* is not the input object, and it is at no address of the input.
FreshOutput ==
  (pc \in {"decoded", "encoded"} /\ ~isFailure(result))
    => result.right # curInput /\ "ref" \notin DOMAIN result.right

-----------------------------------------------------------------------------
(* C12: the operations that throw *)

\* What an operation that throws must do with the parse result t: throw when
\* t is a Failure, else return the given value.
ThrowsIffFailure(t, value) ==
  /\ result._tag = "Error" <=> isFailure(t)
  /\ ~isFailure(t) => result = returns(value)

\* C12: decode and encode return a tagged ParseResult; decodeOrThrow,
\* encodeOrThrow and asserts throw if and only if the parse of their direction
\* is a Failure, and decodeOrThrow / encodeOrThrow return the value of a
\* Success or Warning, the warnings dropped.
C12_ThrowIffFailure ==
  /\ pc \in {"decoded", "encoded"} => result._tag \in {"Left", "Right", "Both"}
  /\ pc = "decodedOrThrown" =>
       LET t == decode(curSchema, curInput, curOptions) IN
       ThrowsIffFailure(t, IF isFailure(t) THEN Undefined ELSE t.right)
  /\ pc = "encodedOrThrown" =>
       LET t == encode(curSchema, curInput, curOptions) IN
       ThrowsIffFailure(t, IF isFailure(t) THEN Undefined ELSE t.right)
  /\ pc = "asserted" =>
       ThrowsIffFailure(parserFor(curSchema, "guard", curInput, curOptions), Undefined)

\* decodeOrThrow returned the value of a Warning.
C12_Witness ==
  /\ pc = "decodedOrThrown"
  /\ hasWarnings(decode(curSchema, curInput, curOptions))
  /\ result = returns(decode(curSchema, curInput, curOptions).right)

-----------------------------------------------------------------------------
(* C13: the directions *)

\* C13: for a schema without Transform nodes the parsers of the three
\* directions return the same ParseResult on every input and options.
C13_DirectionOnlyInTransform ==
  (pc = "decoded" /\ ~hasTransform(curSchema))
    => /\ parserFor(curSchema, "guard", curInput, curOptions) = result
       /\ parserFor(curSchema, "encoder", curInput, curOptions) = result

\* A refinement without Transform rejected its input in the decoder direction,
\* and so do the other two directions.
C13_Witness ==
  /\ pc = "decoded"
  /\ curSchema._tag = "Refinement"
  /\ ~hasTransform(curSchema)
  /\ curInput = Num(0)
  /\ isFailure(result)
  /\ parserFor(curSchema, "guard", curInput, curOptions) = result
  /\ parserFor(curSchema, "encoder", curInput, curOptions) = result

-----------------------------------------------------------------------------
(* C14: error lists are not empty *)

\* The list is not empty, and neither is the list an Index, Key or Member of
\* it wraps.
RECURSIVE ErrorsWellFormed(_)
ErrorsWellFormed(es) ==
  /\ es # << >>
  /\ \A n \in 1..Len(es) :
       es[n]._tag \in {"Index", "Key", "Member"} => ErrorsWellFormed(es[n].errors)

ResultWellFormed(t) == t._tag \in {"Left", "Both"} => ErrorsWellFormed(t.left)

\* The tuple and record parsers in progress.
ContainerCalls ==
  SelectSeq(stack, LAMBDA f : f.kind = "parse"
                                /\ heap[f.p].ast._tag \in {"Tuple", "TypeLiteral"})

\* C14: every Failure and Warning the parsers produce carries a non-empty
\* error list, every Index, Key and Member wraps a non-empty list, and a tuple
\* or record parser that recorded a fatal error (isLeft) has a non-empty error
\* list and does not return a Success.
C14_ErrorListsNonEmpty ==
  /\ pc = "done" => ResultWellFormed(result)
  /\ \A n \in 1..Len(stack) :
       stack[n].kind = "parse" =>
         LET next == Pending(heap[stack[n].p].ast, curAs, stack[n].u, stack[n].st) IN
         next.kind = "return" => ResultWellFormed(next.t)
  /\ \A n \in 1..Len(ContainerCalls) :
       LET f == ContainerCalls[n]
           next == Pending(heap[f.p].ast, curAs, f.u, f.st) IN
       f.st.isLeft =>
         /\ isNonEmpty(f.st.es)
         /\ next.kind = "return" => isFailure(next.t)

\* A tuple parser that recorded a fatal error under allErrors is about to
\* return its Failure.
C14_Witness ==
  /\ pc = "parsing"
  /\ stack # << >>
  /\ Top.kind = "parse"
  /\ TopAst._tag = "Tuple"
  /\ Top.st.isLeft
  /\ Len(Top.st.es) >= 2
  /\ TopPending.kind = "return"
  /\ isFailure(TopPending.t)

-----------------------------------------------------------------------------
(* C15: the rest and the post-rest tail *)

\* What C15 requires of a tuple parse with allErrors: when the input holds
\* every fixed and post-rest position, the errors are those of the walk (rest
\* head up to the last m positions, then tail[j] at input.length - m + j), in
\* order, and the parse succeeds with the input when there are none; when a
\* post-rest position is missing, the first missing one is reported as
\* Index(input.length, [Missing]).
PostRestAsWalked ==
  LET n == Len(curSchema.elements)
      m == Len(curSchema.rest) - 1
      len == Len(curInput.a)
      w == TupleWalk(curSchema, curInput, curOptions) IN
  /\ len >= n + m =>
       /\ w = << >> => result = PEsuccess(curInput)
       /\ w # << >> => ~isSuccess(result) /\ result.left = EntriesOf(w)
  /\ (n <= len /\ len < n + m) =>
       isFailure(result) /\ result.left[Len(result.left)] = PEindex(len, <<PEmissing>>)

\* C15: for a tuple with a rest whose post-rest tail has m >= 1 elements, the
\* positions up to input.length - m - 1 are parsed with the rest head, then
\* tail[j] is applied to position input.length - m + j for j in 0..m-1, in
\* order; the errors of the tail carry that index and a missing tail position
\* is Index(absolute index, [Missing]).
C15_PostRestPositions ==
  (/\ pc = "decoded"
   /\ curOptions.allErrors
   /\ curSchema._tag = "Tuple"
   /\ Len(curSchema.rest) >= 2
   /\ isArray(curInput))
    => PostRestAsWalked

-----------------------------------------------------------------------------
(* C16: the result of a parse with allErrors *)

\* A fatal error: a Type, Equal, Transform or Missing error, an Unexpected
\* error when unexpected keys and indexes are not allowed, or an Index, Key or
\* Member around one.
RECURSIVE IsFatal(_, _)
IsFatal(e, o) ==
  CASE e._tag \in {"Index", "Key", "Member"} ->
         \E n \in 1..Len(e.errors) : IsFatal(e.errors[n], o)
    [] e._tag = "Unexpected" -> ~o.isUnexpectedAllowed
    [] OTHER -> TRUE

HasFatal(es, o) == \E n \in 1..Len(es) : IsFatal(es[n], o)

\* C16: with allErrors, a tuple or record parse is a Failure exactly when one
\* of its recorded errors is fatal, a Warning with the parsed value when it
\* recorded errors none of which is fatal, and a Success when no position
\* gave a diagnostic.
C16_AllErrorsResult ==
  (pc = "decoded" /\ curOptions.allErrors /\ IsWalked(curSchema, curInput)) =>
    /\ isFailure(result) => HasFatal(result.left, curOptions)
    /\ hasWarnings(result) => isNonEmpty(result.left) /\ ~HasFatal(result.left, curOptions)
    /\ isSuccess(result) => Walk(curSchema, curInput, curOptions) = << >>
    /\ (/\ ~isFailure(result)
        /\ curSchema._tag = "Tuple" => curSchema.rest = << >>
        /\ curSchema._tag = "TypeLiteral" => curSchema.indexSignatures = << >>)
         => result.right = DeclaredValue(curSchema, curInput, curOptions)

\* An allErrors parse that recorded two errors, none fatal, and returned the
\* Warning with the parsed value.
C16_Witness ==
  /\ pc = "decoded"
  /\ curOptions.allErrors
  /\ IsWalked(curSchema, curInput)
  /\ hasWarnings(result)
  /\ Len(result.left) >= 2
  /\ ~HasFatal(result.left, curOptions)

-----------------------------------------------------------------------------
(* C17: a union returns its first Success *)

\* The results of the members of a union on u, in declaration order.
MemberResults(ast, as, u, o) == [k \in 1..Len(ast.types) |-> go(ast.types[k], as, u, o)]

\* C17: a union parser runs its members in declaration order; a member runs
\* only when no member before it yielded a Success, and the union returns the
\* first Success, whatever the members before it yielded.
C17_FirstSuccess ==
  \A n \in 1..Len(stack) :
    (stack[n].kind = "parse" /\ heap[stack[n].p].ast._tag = "Union") =>
      LET f == stack[n]
          ast == heap[f.p].ast
          rs == MemberResults(ast, curAs, f.u, curOptions)
          next == Pending(ast, curAs, f.u, f.st) IN
      /\ (n < Len(stack) /\ stack[n + 1].kind = "parse") =>
           /\ stack[n + 1].p = heap[f.p].kids[f.st.i + 1]
           /\ stack[n + 1].u = f.u
           /\ \A k \in 1..f.st.i : ~isSuccess(rs[k])
      /\ (next.kind = "return" /\ \E k \in 1..Len(rs) : isSuccess(rs[k])) =>
           LET first == CHOOSE k \in 1..Len(rs) :
                          isSuccess(rs[k]) /\ \A h \in 1..(k - 1) : ~isSuccess(rs[h]) IN
           next.t = rs[first] /\ f.st.i = first

\* A union of three members returns the Success of its second member after
\* the Warning of its first, the third member not run.
C17_Witness ==
  /\ pc = "parsing"
  /\ stack # << >>
  /\ Top.kind = "parse"
  /\ TopAst._tag = "Union"
  /\ Len(TopAst.types) = 3
  /\ TopPending.kind = "return"
  /\ isSuccess(TopPending.t)
  /\ Top.st.i = 2
  /\ hasWarnings(go(TopAst.types[1], curAs, Top.u, curOptions))

-----------------------------------------------------------------------------
(* C18: the warning candidate of a union *)

\* The number of unexpected-key and unexpected-index diagnostics in a list of
\* errors: the Key and Index errors around an Unexpected, at any depth.
RECURSIVE UnexpectedDiagnostics(_)
UnexpectedDiagnostics(es) ==
  IF es = << >> THEN 0
  ELSE LET e == Head(es) IN
       (IF e._tag \in {"Key", "Index", "Member"}
        THEN (IF e._tag # "Member" /\ \E n \in 1..Len(e.errors) : isUnexpected(e.errors[n])
              THEN 1 ELSE 0) + UnexpectedDiagnostics(e.errors)
        ELSE 0) + UnexpectedDiagnostics(Tail(es))

\* The same, counting only the entries of the list itself.
OwnUnexpectedDiagnostics(es) ==
  Cardinality({n \in 1..Len(es) :
                 /\ es[n]._tag \in {"Key", "Index"}
                 /\ \E k \in 1..Len(es[n].errors) : isUnexpected(es[n].errors[k])})

\* When no member succeeds and some member warns, the union returns the
\* Warning of the first of the members with the least Count.
ReturnsLeast(Count(_)) ==
  LET rs == MemberResults(curSchema, "decoder", curInput, curOptions)
      warned == {k \in 1..Len(rs) : hasWarnings(rs[k])} IN
  ((\A k \in 1..Len(rs) : ~isSuccess(rs[k])) /\ warned # {}) =>
    LET best == CHOOSE k \in warned :
                  \A h \in warned :
                    /\ Count(rs[k].left) <= Count(rs[h].left)
                    /\ h < k => Count(rs[h].left) > Count(rs[k].left) IN
    result = rs[best]

-----------------------------------------------------------------------------
(* C19: a union whose members all fail *)

\* C19: when every member of a union fails, with allErrors or without, the
\* union returns the Failure of one Member per member, in declaration order,
\* each around the error list of that member; Failure([Type(never, input)])
\* is returned only by a union without members.
C19_MemberPerBranch ==
  (pc = "decoded" /\ curSchema._tag = "Union") =>
    LET rs == MemberResults(curSchema, "decoder", curInput, curOptions) IN
    /\ (rs # << >> /\ \A k \in 1..Len(rs) : isFailure(rs[k])) =>
         result = PEfailures([k \in 1..Len(rs) |-> PEmember(rs[k].left)])
    /\ result = PEfailure(PEtype(neverKeyword, curInput)) => rs = << >>

\* Both members of the kind union failed without allErrors, and the union
\* returned their two Member errors.
C19_Witness ==
  /\ pc = "decoded"
  /\ curSchema = KindUnion
  /\ ~curOptions.allErrors
  /\ isFailure(result)
  /\ Len(result.left) = 2
  /\ \A k \in 1..2 : result.left[k]._tag = "Member"

-----------------------------------------------------------------------------
(* C20: the memo of a Lazy node *)

\* The Lazy parsers with the identifier whose memo holds a compiled body.
CompiledBodies(identifier) ==
  {p \in 1..Len(heap) : heap[p].ast = lazy(identifier) /\ heap[p].box # 0}

\* C20: the thunk of a Lazy node is called and its body compiled at most once
\* for the node, however deeply nested the input is (the schemas of the model
\* hold one Lazy node each).
C20_ThunkOncePerNode ==
  /\ thunkCalls <= 1
  /\ \A identifier \in {"Tree", "Loop"} : Cardinality(CompiledBodies(identifier)) <= 1

-----------------------------------------------------------------------------
(* C21: the thunk of a Lazy node is not called by the compilation *)

\* The nodes parserFor compiles for ast in the direction as: the node and the
\* nodes under it, a Lazy node without its body.
RECURSIVE StaticTargets(_, _)
StaticTargets(ast, as) ==
  LET target == Target(ast, as) IN
  {target} \cup
    (IF target._tag = "Lazy"
     THEN {}
     ELSE UNION {StaticTargets(Kids(target)[n], as) : n \in 1..Len(Kids(target))})

\* C21: until parserFor has returned no thunk has been called, go has run
\* on no node of the body of a Lazy node, and the memo of every Lazy parser is
\* empty; a thunk is called only by a Lazy parser with an empty memo that a
\* parse has reached.
C21_ThunkDeferred ==
  /\ [](pc \in {"init", "compiling", "compiled"} =>
          /\ thunkCalls = 0
          /\ \A n \in 1..Len(stack) :
               stack[n].kind = "go" /\ stack[n].ast \in StaticTargets(curSchema, curAs)
          /\ \A p \in 1..Len(heap) : heap[p].box = 0)
  /\ [][thunkCalls' # thunkCalls =>
          /\ pc = "parsing"
          /\ Top.kind = "parse"
          /\ TopAst._tag = "Lazy"
          /\ heap[Top.p].box = 0]_vars

\* The tree schema has been compiled without a thunk call, and the parse has
\* reached its Lazy parser, which calls the thunk for the first time.
C21_Witness ==
  /\ pc = "parsing"
  /\ curSchema = lazy("Tree")
  /\ thunkCalls = 1
  /\ stack # << >>
  /\ Top.kind = "go"
  /\ Top.box = root

-----------------------------------------------------------------------------
(* C22: the legs of a Transform *)

\* The result a Transform parser returns on u given the result of its first
\* leg and, if that did not fail, the result of its second leg: a Failure of
\* either leg as it is.
LegsInOrder(first, second, ret) ==
  IF isFailure(first) THEN ret = first
  ELSE /\ ret = flatMap(first, second)
       /\ isFailure(second) => ret = second

\* The call of the Transform parser in the stack frame is as far as its
\* legs allow.
TransformCallInOrder(frame) ==
  LET ast == heap[frame.p].ast
      u == frame.u
      st == frame.st IN
  IF curAs = "decoder"
  THEN /\ st.self = << >>
       /\ st.ret # << >> =>
            LET from == go(ast.from, "decoder", u, curOptions) IN
            LegsInOrder(from,
                        IF isFailure(from) THEN from
                        ELSE TransformDecode(ast, from.right, curOptions),
                        st.ret[1])
  ELSE LET self == TransformEncode(ast, u, curOptions) IN
       /\ st.self # << >> => (st.self[1] = self /\ ~isFailure(self))
       /\ st.ret # << >> =>
            LegsInOrder(self,
                        IF isFailure(self) THEN self
                        ELSE go(ast.from, "encoder", self.right, curOptions),
                        st.ret[1])

\* C22: a decoder of a Transform parses the input with `from` and applies
\* decode to what `from` returned unless it failed; an encoder applies encode
\* to the input and, unless it failed, parses what it returned with the
\* encoder of `from`; a guard holds no Transform parser, so it calls neither
\* decode nor encode; and a Failure of a leg is the result of the Transform.
C22_TransformLegs ==
  /\ [](/\ curAs = "guard" => \A p \in 1..Len(heap) : heap[p].ast._tag # "Transform"
        /\ \A n \in 1..Len(stack) :
             (stack[n].kind = "parse" /\ heap[stack[n].p].ast._tag = "Transform") =>
               TransformCallInOrder(stack[n]))
  /\ [][(/\ stack # << >>
         /\ Top.kind = "parse"
         /\ TopAst._tag = "Transform"
         /\ Len(stack') = Len(stack) + 1) =>
          LET called == stack'[Len(stack')] IN
          /\ called.kind = "parse"
          /\ heap[called.p].ast = Target(TopAst.from, curAs)
          /\ IF curAs = "encoder"
             THEN Top.st.self # << >> /\ called.u = Top.st.self[1].right
             ELSE called.u = Top.u]_vars

\* A decoder of a Transform whose `from` returned a Warning has returned the
\* Failure of decode.
C22_Witness ==
  /\ pc = "done"
  /\ curAs = "decoder"
  /\ curSchema._tag = "Transform"
  /\ hasWarnings(go(curSchema.from, "decoder", curInput, curOptions))
  /\ isFailure(result)

\* An encoder of a Transform whose encode succeeded returned the Failure of
\* the encoder of `from`.
C22_WitnessEncoder ==
  /\ pc = "done"
  /\ curAs = "encoder"
  /\ curSchema._tag = "Transform"
  /\ ~isFailure(TransformEncode(curSchema, curInput, curOptions))
  /\ isFailure(result)

-----------------------------------------------------------------------------
(* C23: the parser hook of a TypeAlias *)

\* The nodes of the parsers that compiling ast creates, in the order of
\* their creation: for a TypeAlias with a hook those of the type parameters
\* in order, then the one the handler returns; for a TypeAlias without a hook
\* those of the aliased type.
RECURSIVE ParsersOf(_, _)
ParsersOf(ast, as) ==
  IF ast._tag = "TypeAlias"
  THEN IF getHook(ast) # << >>
       THEN Flatten([n \in 1..Len(ast.typeParameters) |->
                       ParsersOf(ast.typeParameters[n], as)]) \o <<ast>>
       ELSE ParsersOf(ast.type, as)
  ELSE LET target == Target(ast, as) IN
       IF target._tag = "Lazy" THEN <<target>>
       ELSE Flatten([n \in 1..Len(Kids(target)) |-> ParsersOf(Kids(target)[n], as)])
              \o <<target>>

\* What the parser of the handler returns on u, given the parsers of the
\* type parameters.
HandlerResult(ast, as, u, options) ==
  IF ast.hook = "orUndefined" /\ ~isUndefined(u)
  THEN go(ast.typeParameters[1], as, u, options)
  ELSE PEsuccess(u)

\* C23: compiling creates, for a TypeAlias with a hook, the parsers of the
\* type parameters in order and in the current direction and the parser the
\* handler returns for them, and no parser of the aliased type; for a
\* TypeAlias without a hook, the parsers of the aliased type.  The parser of
\* a TypeAlias with a hook behaves as the handler's, the parser of one
\* without as the parser of the aliased type, and a node of another kind with
\* the annotation as the node without it.
C23_TypeAliasHook ==
  /\ pc \in {"compiled", "parsing", "done"} =>
       /\ Len(heap) >= Len(ParsersOf(curSchema, curAs))
       /\ \A p \in 1..Len(ParsersOf(curSchema, curAs)) :
            heap[p].ast = ParsersOf(curSchema, curAs)[p]
       /\ pc = "compiled" => Len(heap) = Len(ParsersOf(curSchema, curAs))
  /\ \A p \in 1..Len(heap) :
       heap[p].ast._tag = "TypeAlias" =>
         /\ getHook(heap[p].ast) # << >>
         /\ Len(heap[p].kids) = Len(heap[p].ast.typeParameters)
         /\ \A n \in 1..Len(heap[p].kids) :
              heap[heap[p].kids[n]].ast = Target(heap[p].ast.typeParameters[n], curAs)
  /\ (pc = "done" /\ curSchema._tag = "TypeAlias") =>
       result = IF getHook(curSchema) # << >>
                THEN HandlerResult(curSchema, curAs, curInput, curOptions)
                ELSE go(curSchema.type, curAs, curInput, curOptions)
  /\ (pc = "done" /\ curSchema = AnnotatedStringPair) =>
       result = go(StringPair, curAs, curInput, curOptions)

\* The encoder of a TypeAlias with a hook has returned what the handler's
\* parser returns, which is not what the parser of the aliased type returns.
C23_Witness ==
  /\ pc = "done"
  /\ curAs = "encoder"
  /\ curSchema._tag = "TypeAlias"
  /\ getHook(curSchema) # << >>
  /\ hasTransform(curSchema)
  /\ isSuccess(result)
  /\ result # go(curSchema.type, curAs, curInput, curOptions)

-----------------------------------------------------------------------------
(* C24: absent positions *)

\* The names of the fixed positions of the container, in order: the indexes
\* of the elements of a tuple, the names of the properties of a record.
FixedNames(ast) ==
  IF ast._tag = "Tuple" THEN [n \in 1..Len(ast.elements) |-> IdxKey(n - 1)]
  ELSE [n \in 1..Len(ast.propertySignatures) |-> ast.propertySignatures[n].name]

FixedType(ast, n) ==
  IF ast._tag = "Tuple" THEN ast.elements[n].type ELSE ast.propertySignatures[n].type

FixedOptional(ast, n) ==
  IF ast._tag = "Tuple" THEN ast.elements[n].isOptional
  ELSE ast.propertySignatures[n].isOptional

\* Index(i, errors) of a tuple, Key(name, errors) of a record.
FixedError(ast, n, errors) ==
  IF ast._tag = "Tuple" THEN PEindex(n - 1, errors)
  ELSE PEkey(ast.propertySignatures[n].name, errors)

\* The position of an error of the container.
ErrorName(e) == IF e._tag = "Index" THEN IdxKey(e.index) ELSE e.key

\* Is the fixed position present in the input?
IsPresent(ast, u, n) ==
  IF ast._tag = "Tuple" THEN n <= Len(u.a)
  ELSE hasOwnProperty(Entries(u), FixedNames(ast)[n])

C24_WitnessUndefined ==
  /\ pc = "decoded"
  /\ curSchema = IdName
  /\ curInput = Obj(<<[k |-> "name", v |-> Undefined], [k |-> "id", v |-> Str("n")]>>)
  /\ isFailure(result)

-----------------------------------------------------------------------------
(* C25: inputs that are no object and no array *)

\* The record without property signatures and index signatures.
IsEmptyRecord(ast) ==
  ast._tag = "TypeLiteral" /\ ast.propertySignatures = << >> /\ ast.indexSignatures = << >>

\* C25 as stated: every record parser, the empty record's too, rejects an
\* input that is no object (no array) with Failure([Type(unknownRecord,
\* input)]), and every tuple parser an input that is no array with
\* Failure([Type(unknownArray, input)]).
C25_RejectsNonObjects ==
  pc = "decoded" =>
    /\ (curSchema._tag = "TypeLiteral" /\ ~isUnknownObject(curInput)) =>
         result = PEfailure(PEtype(unknownRecord, curInput))
    /\ (curSchema._tag = "Tuple" /\ ~isArray(curInput)) =>
         result = PEfailure(PEtype(unknownArray, curInput))

\* C25: a record parser with a property signature or an index signature
\* rejects an input that is no object (no array) with Failure([Type(
\* unknownRecord, input)]); the parser of the empty record returns
\* Success(input) for every input but null and undefined, which it rejects
\* with Failure([Type(ast, input)]); a tuple parser rejects an input that is
\* no array with Failure([Type(unknownArray, input)]).
C25_RejectsNonObjectsUnlessEmpty ==
  pc = "decoded" =>
    /\ (curSchema._tag = "TypeLiteral" /\ ~IsEmptyRecord(curSchema)
          /\ ~isUnknownObject(curInput)) =>
         result = PEfailure(PEtype(unknownRecord, curInput))
    /\ IsEmptyRecord(curSchema) =>
         result = IF isNotNull(curInput) THEN PEsuccess(curInput)
                  ELSE PEfailure(PEtype(curSchema, curInput))
    /\ (curSchema._tag = "Tuple" /\ ~isArray(curInput)) =>
         result = PEfailure(PEtype(unknownArray, curInput))

\* A record with property signatures has rejected null.
C25_Witness ==
  /\ pc = "decoded"
  /\ curSchema._tag = "TypeLiteral"
  /\ curSchema.propertySignatures # << >>
  /\ curInput = Null
  /\ result = PEfailure(PEtype(unknownRecord, Null))

-----------------------------------------------------------------------------
(* C26: the bigint parser *)

\* C26: the bigint parser returns Success(input) for a bigint; for a string,
\* a number or a boolean Success(BigInt(input)), or Failure([Transform(
\* primitive, ast, input)]) when BigInt throws; for every other input
\* Failure([Type(primitive, input)]), primitive being string | number |
\* boolean; it returns a result for every input.
C26_BigIntPrecedence ==
  (pc = "decoded" /\ curSchema = bigIntKeyword) =>
    LET u == curInput IN
    /\ result._tag \in {"Left", "Right"}
    /\ u.t = "bigint" => result = PEsuccess(u)
    /\ u.t \in {"string", "number", "boolean"} =>
         IF BigInt(u) # << >>
         THEN result = PEsuccess(BigInt(u)[1]) /\ result.right.t = "bigint"
         ELSE result = PEfailure(PEtransform(
                         union(<<stringKeyword, numberKeyword, booleanKeyword>>),
                         bigIntKeyword, u))
    /\ u.t \notin {"bigint", "string", "number", "boolean"} =>
         result = PEfailure(PEtype(union(<<stringKeyword, numberKeyword, booleanKeyword>>), u))

\* The bigint parser has rejected null.
C26_Witness ==
  /\ pc = "decoded"
  /\ curSchema = bigIntKeyword
  /\ curInput = Null
  /\ isFailure(result)

\* The bigint parser has caught the exception of BigInt(1.5).
C26_WitnessThrows ==
  /\ pc = "decoded"
  /\ curSchema = bigIntKeyword
  /\ curInput = OneAndAHalf
  /\ result = PEfailure(PEtransform(primitive, bigIntKeyword, OneAndAHalf))

-----------------------------------------------------------------------------
(* C27: the keys of the output of a record *)

\* The property signature of the record with the name, if any.
SignaturesNamed(ast, name) ==
  {n \in 1..Len(ast.propertySignatures) : ast.propertySignatures[n].name = name}

\* The index signatures of the record that match the key of the input.
SignaturesMatching(ast, u, o, key) ==
  {n \in 1..Len(ast.indexSignatures) :
     /\ key \in Range(getKeysForIndexSignature(u, ast.indexSignatures[n].parameter))
     /\ ~isFailure(go(ast.indexSignatures[n].parameter, "decoder", Str(key), o))}

\* C27: when a record parser returns Success or Warning, every key of the
\* output is the name of a property signature and an own key of the input,
\* with the value the parser of that property returned, or else a key that
\* an index signature matches, with the value the value parser of that
\* index signature returned; and no key reported as Unexpected is a key of
\* the output.
C27_OnlyValidatedKeys ==
  (pc = "decoded" /\ curSchema._tag = "TypeLiteral" /\ ~isFailure(result)) =>
    LET ast == curSchema
        u == curInput
        o == curOptions
        out == Entries(result.right) IN
    /\ \A e \in Range(out) :
         /\ hasOwnProperty(Entries(u), e.k)
         /\ IF SignaturesNamed(ast, e.k) # {}
            THEN \E n \in SignaturesNamed(ast, e.k) :
                   e.v = go(ast.propertySignatures[n].type, "decoder",
                            Get(Entries(u), e.k), o).right
            ELSE \E n \in SignaturesMatching(ast, u, o, e.k) :
                   e.v = go(ast.indexSignatures[n].type, "decoder",
                            Get(Entries(u), e.k), o).right
    /\ hasWarnings(result) =>
         \A e \in Range(result.left) :
           (e._tag = "Key" /\ e.errors = <<PEunexpected(Get(Entries(u), e.key))>>) =>
             ~hasOwnProperty(out, e.key)

-----------------------------------------------------------------------------
(* C28: the index signatures of a record *)

\* The index signatures of the record whose key kind the key of the input has.
SignaturesOfKind(ast, u, key) ==
  {n \in 1..Len(ast.indexSignatures) :
     key \in Range(getKeysForIndexSignature(u, ast.indexSignatures[n].parameter))}

\* C28: the parser of a record with an index signature calls, for a key of
\* the input of the key kind of a signature, the parameter parser on the key
\* and then, only if the key did not fail, the value parser on the value of
\* the key.  A result without Failure holds every such key, with a value the
\* value parser of a signature of its kind returned.  Every error of the
\* record is a Key, none of them around an Unexpected error whatever
\* isUnexpectedAllowed is; with allErrors a failed key is reported as
\* Key(key, errs), and so is the failed value of a key that did not fail.
C28_IndexSignatures ==
  /\ [][(/\ stack # << >>
         /\ Top.kind = "parse"
         /\ TopAst._tag = "TypeLiteral"
         /\ Len(stack') = Len(stack) + 1) =>
          LET called == stack'[Len(stack')]
              np == Len(TopAst.propertySignatures)
              kid == CHOOSE n \in 1..Len(heap[Top.p].kids) : heap[Top.p].kids[n] = called.p IN
          kid > np =>
            LET sig == TopAst.indexSignatures[(kid - np + 1) \div 2]
                keys == getKeysForIndexSignature(Top.u, sig.parameter)
                key == keys[Top.st.k + 1] IN
            /\ Top.st.k < Len(keys)
            /\ IF (kid - np) % 2 = 1
               THEN called.u = Str(key)
               ELSE /\ called.u = Get(Entries(Top.u), key)
                    /\ ~isFailure(go(sig.parameter, curAs, Str(key), curOptions))]_vars
  /\ []((/\ pc = "done"
         /\ curSchema._tag = "TypeLiteral"
         /\ curSchema.indexSignatures # << >>
         /\ isUnknownObject(curInput)) =>
          LET ast == curSchema
              u == curInput
              o == curOptions
              keyOf(n, key) == go(ast.indexSignatures[n].parameter, curAs, Str(key), o)
              valueOf(n, key) == go(ast.indexSignatures[n].type, curAs,
                                    Get(Entries(u), key), o) IN
          /\ ~isFailure(result) =>
               \A key \in Range(ownKeys(u)) :
                 SignaturesOfKind(ast, u, key) # {} =>
                   /\ \A n \in SignaturesOfKind(ast, u, key) : ~isFailure(keyOf(n, key))
                   /\ hasOwnProperty(Entries(result.right), key)
                   /\ \E n \in SignaturesOfKind(ast, u, key) :
                        Get(Entries(result.right), key) = valueOf(n, key).right
          /\ ~isSuccess(result) =>
               \A e \in Range(result.left) :
                 e._tag = "Key" /\ \A x \in Range(e.errors) : x._tag # "Unexpected"
          /\ o.allErrors =>
               \A key \in Range(ownKeys(u)) :
                 \A n \in SignaturesOfKind(ast, u, key) :
                   IF isFailure(keyOf(n, key))
                   THEN /\ PEkey(key, keyOf(n, key).left) \in Range(result.left)
                        /\ (isFailure(valueOf(n, key)) /\ Len(ast.indexSignatures) = 1
                              /\ SignaturesNamed(ast, key) = {}) =>
                             PEkey(key, valueOf(n, key).left) \notin Range(result.left)
                   ELSE isFailure(valueOf(n, key)) =>
                          PEkey(key, valueOf(n, key).left) \in Range(result.left))

\* With allErrors, a record with an index signature has reported the key "b",
\* which its key parser rejects, and has not parsed the value of that key,
\* which its value parser rejects.
C28_Witness ==
  /\ pc = "done"
  /\ curSchema = typeLiteral(<< >>, <<indexSignature(NotB, numberKeyword, TRUE)>>)
  /\ curOptions.allErrors
  /\ hasOwnProperty(Entries(curInput), "b")
  /\ Get(Entries(curInput), "b") = Str("x")
  /\ isFailure(result)
  /\ PEkey("b", <<PEtype(NotB, Str("b"))>>) \in Range(result.left)

-----------------------------------------------------------------------------
(* C29 *)

\* a is b with some of its entries left out.
RECURSIVE IsSubsequence(_, _)
IsSubsequence(a, b) ==
  IF a = << >> THEN TRUE
  ELSE IF b = << >> THEN FALSE
  ELSE IF Head(a) = Head(b) THEN IsSubsequence(Tail(a), Tail(b))
  ELSE IsSubsequence(a, Tail(b))

\* The keys of a record in the order its parser comes to them: the declared
\* properties, then for each index signature every own key (its key, then its
\* value), or without index signatures every own key.
TraversalKeys(ast, u) ==
  LET declared == [p \in 1..Len(ast.propertySignatures) |-> ast.propertySignatures[p].name]
      keys == ownKeys(u)
      twice == Flatten([n \in 1..Len(keys) |-> <<keys[n], keys[n]>>])
  IN IF Len(ast.indexSignatures) > 0
     THEN declared \o Flatten([p \in 1..Len(ast.indexSignatures) |-> twice])
     ELSE declared \o keys

\* C29: with allErrors = false, a Failure of a tuple or record parser has one
\* fatal error, its last entry; the entries before it are not fatal, they are
\* warnings that the positions of the walk give, and the entries are in the
\* order of the traversal.
C29_OneFatalLast ==
  (pc = "decoded" /\ ~curOptions.allErrors
     /\ curSchema._tag \in {"Tuple", "TypeLiteral"} /\ isFailure(result)) =>
    LET ast == curSchema
        u == curInput
        o == curOptions
        errs == result.left
        n == Len(errs) IN
    /\ n > 0
    /\ IsFatal(errs[n], o)
    /\ \A k \in 1..(n - 1) : ~IsFatal(errs[k], o)
    /\ IsWalked(ast, u) =>
         /\ \A k \in 1..(n - 1) :
              \E p \in 1..Len(Walk(ast, u, o)) :
                ~Walk(ast, u, o)[p].fatal /\ Walk(ast, u, o)[p].entry = errs[k]
         /\ ast._tag = "Tuple" =>
              /\ \A k \in 1..n : errs[k]._tag = "Index"
              /\ \A j, k \in 1..n : j < k => errs[j].index < errs[k].index
         /\ ast._tag = "TypeLiteral" =>
              /\ \A k \in 1..n : errs[k]._tag = "Key"
              /\ IsSubsequence([k \in 1..n |-> errs[k].key], TraversalKeys(ast, u))

\* Without allErrors, a tuple parse has failed with a warning of an earlier
\* position before its fatal error.
C29_Witness ==
  /\ pc = "decoded"
  /\ ~curOptions.allErrors
  /\ curSchema._tag = "Tuple"
  /\ isArray(curInput)
  /\ isFailure(result)
  /\ Len(result.left) >= 2
  /\ ~IsFatal(result.left[1], curOptions)
  /\ IsFatal(result.left[Len(result.left)], curOptions)

\* Without allErrors, a record parse has failed with a warning of an earlier
\* key before its fatal error.
C29_WitnessRecord ==
  /\ pc = "decoded"
  /\ ~curOptions.allErrors
  /\ curSchema._tag = "TypeLiteral"
  /\ isFailure(result)
  /\ Len(result.left) >= 2
  /\ ~IsFatal(result.left[1], curOptions)
  /\ IsFatal(result.left[Len(result.left)], curOptions)

-----------------------------------------------------------------------------
(* C30: the order of a Refinement *)

\* The call of the Refinement parser in the stack frame has returned nothing
\* before `from` returned, then the Failure of `from` as it is, or else what
\* decode made of the value `from` returned.
RefinementCallInOrder(frame) ==
  LET ast == heap[frame.p].ast
      st == frame.st IN
  st.ret # << >> =>
    LET from == go(ast.from, curAs, frame.u, curOptions) IN
    IF isFailure(from) THEN st.ret[1] = from
    ELSE st.ret[1] = flatMap(from, RefinementDecode(ast, from.right))

\* C30: in every direction a Refinement parser calls the parser of `from`
\* compiled in that direction on its own input, before anything else, and
\* returns the Failure of `from` as it is or else applies decode to the value
\* `from` returned; so an encoder whose `from` contains a Transform gives the
\* predicate the encoded value, not the value encode was called with.
C30_RefinementOrder ==
  /\ [](/\ \A n \in 1..Len(stack) :
             (stack[n].kind = "parse" /\ heap[stack[n].p].ast._tag = "Refinement") =>
               RefinementCallInOrder(stack[n])
        /\ (pc = "done" /\ curSchema._tag = "Refinement") =>
             LET from == go(curSchema.from, curAs, curInput, curOptions) IN
             /\ isFailure(from) => result = from
             /\ ~isFailure(from) =>
                  result = flatMap(from, RefinementDecode(curSchema, from.right))
             /\ (curAs = "encoder" /\ isSuccess(from)) =>
                  result = RefinementDecode(curSchema, encode(curSchema.from, curInput, curOptions).right))
  /\ [][(/\ stack # << >>
         /\ Top.kind = "parse"
         /\ TopAst._tag = "Refinement"
         /\ Len(stack') = Len(stack) + 1) =>
          LET called == stack'[Len(stack')] IN
          /\ called.kind = "parse"
          /\ heap[called.p].ast = Target(TopAst.from, curAs)
          /\ called.u = Top.u
          /\ Top.st.ret = << >>]_vars

\* An encoder of a Refinement of NumberFromString was given the positive
\* number 1; its predicate was given the string "1" that `from` encoded and
\* rejected it.
C30_Witness ==
  /\ pc = "done"
  /\ curAs = "encoder"
  /\ curSchema = refinement(NumberFromString, "positive")
  /\ curInput = Num(1)
  /\ result = PEfailure(PEtype(curSchema, Str("1")))

\* A Refinement parser whose `from` failed has returned that Failure.
C30_WitnessFromFails ==
  /\ pc = "done"
  /\ curSchema._tag = "Refinement"
  /\ isFailure(go(curSchema.from, curAs, curInput, curOptions))
  /\ result = go(curSchema.from, curAs, curInput, curOptions)

\* A guard of a Refinement has applied the predicate to the value its `from`
\* accepted.
C30_WitnessGuard ==
  /\ pc = "done"
  /\ curAs = "guard"
  /\ curSchema._tag = "Refinement"
  /\ isSuccess(go(curSchema.from, curAs, curInput, curOptions))
  /\ isFailure(result)

====
